---- MODULE Spec2Model ----
(***************************************************************************)
(* Model of the cached Markov-chain engine of entromatica                  *)
(* (src/src/simulation.rs, src/src/cached_function.rs, src/src/hash.rs)    *)
(* and of its rule composition layer (src/src/models/rules.rs).            *)
(*                                                                         *)
(* Probabilities (f64 in the source) are modelled as rationals             *)
(* <<numerator, denominator>> in lowest terms, and the arithmetic of the   *)
(* step on them is exact.  Where the result of the engine depends on the   *)
(* rounding of f64, the bit-exact comparison of two entropies in           *)
(* uniform_distribution_is_steady, the model tells the steps whose f64     *)
(* arithmetic is exact from those that round, and lets the comparison of   *)
(* rounded values go either way.  Hash digests are modelled as an          *)
(* injective wrapping of the hashed value.                                 *)
(***************************************************************************)
EXTENDS Integers, Sequences, FiniteSets, TLC

\* ------------------------------------------------------------------ bounds

\* Largest absolute position the unbounded random walk may reach in the model.
MaxState == 3

\* Number of public operations started on one engine.
MaxOps == 3

\* ------------------------------------------------------- program constants

\* Number of positions of the circular generators: NUM_STATES of the tests.
NumStates == 5

\* Decimal places the row sums are rounded to: 10_i64.pow(10).
RoundDigits == 10

\* --------------------------------------------------- probability arithmetic

RECURSIVE GCD(_, _)
GCD(a, b) == IF b = 0 THEN a ELSE GCD(b, a % b)

Abs(x) == IF x < 0 THEN -x ELSE x

\* A probability in lowest terms with a positive denominator.
PNorm(n, d) ==
    LET g == GCD(Abs(n), Abs(d))
        s == IF d < 0 THEN -1 ELSE 1
    IN  IF n = 0 THEN <<0, 1>> ELSE <<s * (n \div g), s * (d \div g)>>

Zero == <<0, 1>>
One == <<1, 1>>

PAdd(p, q) ==
    LET g == GCD(p[2], q[2])
    IN  PNorm(p[1] * (q[2] \div g) + q[1] * (p[2] \div g), (p[2] \div g) * q[2])

PMul(p, q) ==
    LET g1 == GCD(Abs(p[1]), q[2])
        g2 == GCD(Abs(q[1]), p[2])
    IN  IF p[1] = 0 \/ q[1] = 0 THEN Zero
        ELSE PNorm((p[1] \div g1) * (q[1] \div g2), (p[2] \div g2) * (q[2] \div g1))

PLeq(p, q) == p[1] * q[2] <= q[1] * p[2]

\* Iterator::sum::<f64>() over a sequence of probabilities.
RECURSIVE PSumSeq(_)
PSumSeq(ps) == IF ps = <<>> THEN Zero ELSE PAdd(PSumSeq(Tail(ps)), Head(ps))

\* Sum of the values of a map hash -> probability.
RECURSIVE PSumMap(_)
PSumMap(m) ==
    IF DOMAIN m = {} THEN Zero
    ELSE LET k == CHOOSE x \in DOMAIN m : TRUE
         IN  PAdd(m[k], PSumMap([x \in DOMAIN m \ {k} |-> m[x]]))

RECURSIVE DivPow10(_, _)
DivPow10(x, k) == IF k = 0 THEN x ELSE DivPow10(x \div 10, k - 1)

\* (sum * 10^10).round() / 10^10 == 1.0: the sum lies within half a unit of
\* the tenth decimal place of 1 (f64::round rounds halves away from zero).
RoundsToOne(p) ==
    LET n == p[1]
        d == p[2]
    IN  IF n >= d THEN (n - d) <= DivPow10((d - 1) \div 2, RoundDigits)
        ELSE (d - n) <= DivPow10(d \div 2, RoundDigits)

\* ----------------------------------------------------------------- hashing

\* hash(): the digest of a value.  Equal values have equal digests and the
\* model has no collisions.
Hash(x) == <<x>>

\* ------------------------------------------------------------ small helpers

EmptyMap == [x \in {} |-> 0]

Range(f) == {f[x] : x \in DOMAIN f}

Max(S) == CHOOSE x \in S : \A y \in S : y <= x

RECURSIVE Ascending(_)
Ascending(S) ==
    IF S = {} THEN <<>>
    ELSE LET m == CHOOSE x \in S : \A y \in S : x <= y
         IN  <<m>> \o Ascending(S \ {m})

Reverse(q) == [i \in 1..Len(q) |-> q[Len(q) + 1 - i]]

\* The orders in which a HashMap keyed by the values of S is iterated.  The
\* order of a HashMap is unspecified; the model considers two enumerations,
\* the ascending and the descending one.
Orders(S) == {Ascending(S), Reverse(Ascending(S))}

\* The same for a HashMap keyed by the digests H.
HashOrders(H) ==
    {[i \in 1..Len(order) |-> Hash(order[i])] : order \in Orders({h[1] : h \in H})}

\* HashMap::insert
Insert(m, k, v) == [x \in DOMAIN m \cup {k} |-> IF x = k THEN v ELSE m[x]]

\* ------------------------------------------------------ probabilities, circle

Half == <<1, 2>>
Quarter == <<1, 4>>
ThreeTenths == <<3, 10>>
SevenTenths == <<7, 10>>

Succ(s) == IF s + 1 = NumStates THEN 0 ELSE s + 1

\* A faulty variant of Pred: the walk stops at 0 instead of wrapping around.
PredSaturating(s) == IF s - 1 = -1 THEN 0 ELSE s - 1

Pred(s) == IF s - 1 = -1 THEN NumStates - 1 ELSE s - 1

\* ---------------------------------------------------- rule composition layer

\* Rule::new
Rule(description, condition, probability_weight, action) ==
    [description |-> description, condition |-> condition,
     weight |-> probability_weight, action |-> action]

\* Rule::applies, for the condition closures of the tests and of the
\* documentation: |_| true and |state| state != 0.
Applies(rule, state) ==
    CASE rule.condition = "always"  -> TRUE
      [] rule.condition = "nonzero" -> state # 0

\* Rule::apply, for the action closures of the tests and of the
\* documentation (|state| state + 1, |state| state - 1, |_| 0), the identity
\* and the step around the circle of NumStates positions.
Apply(rule, state) ==
    CASE rule.action = "forward"  -> state + 1
      [] rule.action = "backward" -> state - 1
      [] rule.action = "return"   -> 0
      [] rule.action = "stay"     -> state
      [] rule.action = "next"     -> Succ(state)

\* A faulty variant of MergeRule: a later rule replaces the entry of an
\* earlier rule with the same successor.
MergeRuleReplace(acc, rule, state) ==
    Insert(acc, Hash(Apply(rule, state)),
           <<Apply(rule, state), rule.weight, rule.description>>)

\* get_state_transition_generator, the closure of the fold: the entry of the
\* successor is added to (e.1 += weight, e.2 = format!("{} | {}", ..)) or
\* inserted.
MergeRule(acc, rule, state) ==
    LET new_state == Apply(rule, state)
    IN  IF Hash(new_state) \in DOMAIN acc
        THEN [acc EXCEPT ![Hash(new_state)] =
                <<@[1], PAdd(@[2], rule.weight), @[3] \o " | " \o rule.description>>]
        ELSE Insert(acc, Hash(new_state), <<new_state, rule.weight, rule.description>>)

\* get_state_transition_generator: new_states_by_weight, the fold over the
\* applicable rules in the order of the vector rules.
RECURSIVE NewStatesByWeight(_, _, _)
NewStatesByWeight(acc, rules, state) ==
    IF rules = <<>> THEN acc
    ELSE NewStatesByWeight(IF Applies(Head(rules), state)
                           THEN MergeRule(acc, Head(rules), state)
                           ELSE acc,
                           Tail(rules), state)

\* A faulty variant of NothingFactor: every rule is taken never to fire.
NothingFactorOne(weight) == One

\* get_state_transition_generator: 1. - *weight
NothingFactor(weight) == PAdd(One, <<-weight[1], weight[2]>>)

\* get_state_transition_generator: nothing_probability, the product of
\* 1 - weight over the entries of new_states_by_weight.
RECURSIVE NothingProbability(_)
NothingProbability(new_states_by_weight) ==
    IF DOMAIN new_states_by_weight = {} THEN One
    ELSE LET k == CHOOSE x \in DOMAIN new_states_by_weight : TRUE
         IN  PMul(NothingFactor(new_states_by_weight[k][2]),
                  NothingProbability([x \in DOMAIN new_states_by_weight \ {k} |->
                                         new_states_by_weight[x]]))

\* get_state_transition_generator: weight_sum, the sum of the weights of the
\* entries of new_states_by_weight plus nothing_probability.
WeightSum(new_states_by_weight, nothing_probability) ==
    PAdd(PSumMap([h \in DOMAIN new_states_by_weight |-> new_states_by_weight[h][2]]),
         nothing_probability)

\* weight / weight_sum
PDiv(p, q) == IF p[1] = 0 THEN Zero ELSE PNorm(p[1] * q[2], p[2] * q[1])

\* get_state_transition_generator: new_states as collected, every weight
\* divided by weight_sum.
Normalized(new_states_by_weight, weight_sum) ==
    [h \in DOMAIN new_states_by_weight |->
        <<new_states_by_weight[h][1],
          PDiv(new_states_by_weight[h][2], weight_sum),
          new_states_by_weight[h][3]>>]

\* get_state_transition_generator: entry(base_state_hash).and_modify(..)
\* .or_insert(..), with share = nothing_probability / weight_sum.
FoldNothing(new_states, state, share) ==
    IF Hash(state) \in DOMAIN new_states
    THEN [new_states EXCEPT ![Hash(state)] =
            <<@[1], PAdd(@[2], share), @[3] \o " | Nothing">>]
    ELSE Insert(new_states, Hash(state), <<state, share, "Nothing">>)

\* get_state_transition_generator: new_states, with the do-nothing entry
\* folded in when nothing_probability > 0.
NewStates(new_states_by_weight, state, nothing_probability, weight_sum) ==
    IF nothing_probability[1] > 0
    THEN FoldNothing(Normalized(new_states_by_weight, weight_sum), state,
                     PDiv(nothing_probability, weight_sum))
    ELSE Normalized(new_states_by_weight, weight_sum)

\* The order in which the HashMap new_states is drained by into_iter(): the
\* order of a HashMap is unspecified; a generator of the model enumerates its
\* successors in ascending or in descending order.
DrainOrder(H, descending) ==
    IF descending
    THEN [i \in 1..Cardinality(H) |-> Hash(Reverse(Ascending({h[1] : h \in H}))[i])]
    ELSE [i \in 1..Cardinality(H) |-> Hash(Ascending({h[1] : h \in H})[i])]

\* get_state_transition_generator: new_states.into_iter().map(..).collect_vec()
Drain(new_states, order) ==
    [i \in 1..Len(order) |->
        <<new_states[order[i]][1], new_states[order[i]][3], new_states[order[i]][2]>>]

\* get_state_transition_generator, from new_states_by_weight on.
Compose(new_states_by_weight, state, nothing_probability, descending) ==
    Drain(NewStates(new_states_by_weight, state, nothing_probability,
                    WeightSum(new_states_by_weight, nothing_probability)),
          DrainOrder(DOMAIN new_states_by_weight
                        \cup (IF nothing_probability[1] > 0 THEN {Hash(state)} ELSE {}),
                     descending))

\* From the merged entries on: nothing_probability is computed from them.
ComposeMerged(new_states_by_weight, state, descending) ==
    Compose(new_states_by_weight, state, NothingProbability(new_states_by_weight),
            descending)

\* The closure returned by get_state_transition_generator(rules), applied to
\* state: the list of (state, description, probability).
GetStateTransitionGenerator(rules, descending, state) ==
    ComposeMerged(NewStatesByWeight(EmptyMap, rules, state), state, descending)

Tenth == <<1, 10>>
ThreeQuarters == <<3, 4>>

\* The lists of rules the generators of the model are composed from: the
\* rules of the tests and of the documentation, and rules exercising the
\* layer's corner cases (no applicable rule, a single rule, a rule leading
\* back to the source state, rules with a common successor).
RuleSetNames ==
    {"random_walk", "random_walk_return", "halves", "gated", "return_only",
     "certain", "lazy", "overlap", "overweight"}

Rules(name) ==
    CASE name = "random_walk" ->
            << Rule("Forward", "always", One, "forward"),
               Rule("Backward", "always", One, "backward") >>
      [] name = "random_walk_return" ->
            << Rule("Forward", "always", One, "forward"),
               Rule("Backward", "always", One, "backward"),
               Rule("Return", "always", Tenth, "return") >>
      [] name = "halves" ->
            << Rule("Forward", "always", Half, "forward"),
               Rule("Backward", "always", Half, "backward") >>
      [] name = "gated" ->
            << Rule("Return", "nonzero", Tenth, "return") >>
      [] name = "return_only" ->
            << Rule("Return", "always", Tenth, "return") >>
      [] name = "certain" ->
            << Rule("Next", "always", One, "next") >>
      [] name = "lazy" ->
            << Rule("Stay", "always", Half, "stay"),
               Rule("Next", "always", Half, "next") >>
      [] name = "overlap" ->
            << Rule("A", "always", Half, "next"),
               Rule("B", "always", Half, "next") >>
      [] name = "overweight" ->
            << Rule("A", "always", ThreeQuarters, "next"),
               Rule("B", "always", ThreeQuarters, "next") >>

\* The generators built by get_state_transition_generator from a list of
\* rules, one for each order in which the successors are enumerated.
RuleGeneratorIds ==
    {name \o drain : name \in RuleSetNames, drain \in {"/ascending", "/descending"}}

RuleSetOf(g) ==
    CHOOSE name \in RuleSetNames : g \in {name \o "/ascending", name \o "/descending"}

Descending(g) == g = RuleSetOf(g) \o "/descending"


\* --------------------------------------------------- generators of the model

\* The state transition generators of the tests and of the documentation,
\* and generators exercising the engine's corner cases.
GeneratorIds == {"cycle", "biased", "stay", "walk", "leaky", "dup", "zero"}

Generator(g, s) ==
    CASE g = "cycle" ->
            << <<Succ(s), "forward", Half>>, <<Pred(s), "backward", Half>> >>
      [] g = "biased" ->
            << <<Succ(s), "forward", ThreeTenths>>,
               <<Pred(s), "backward", SevenTenths>> >>
      [] g = "stay" ->
            << <<IF s + 1 = NumStates THEN 1 ELSE s + 1, "forward", Half>>,
               <<0, "stay", Half>> >>
      [] g = "walk" ->
            << <<s + 1, "next", Half>>, <<s - 1, "previous", Half>> >>
      [] g = "leaky" ->
            IF s = 1
            THEN << <<Succ(s), "forward", Half>>, <<0, "stay", Quarter>> >>
            ELSE << <<Succ(s), "forward", Half>>, <<0, "stay", Half>> >>
      [] g = "dup" ->
            << <<Succ(s), "a", Quarter>>, <<Succ(s), "b", Quarter>>,
               <<0, "c", Half>> >>
      [] g = "zero" ->
            IF s = 0
            THEN << <<0, "stay", One>>, <<1, "never", Zero>> >>
            ELSE << <<0, "back", One>> >>
      [] OTHER ->
            GetStateTransitionGenerator(Rules(RuleSetOf(g)), Descending(g), s)

\* The initial distributions handed to new_with_distribution.
InitialDistributions ==
    { (0 :> Half @@ 1 :> Half),
      (0 :> Half @@ 1 :> Quarter) }

InitialStates == {0, 1}

\* ------------------------------------------------------------ CachedFunction

\* CachedFunction::new
CachedFunctionNew(function) == [cache |-> EmptyMap, function |-> function]

\* CachedFunction::bypass
Bypass(cf, input) == Generator(cf.function, input)

RECURSIVE InsertPairs(_, _)
InsertPairs(cache, pairs) ==
    IF pairs = <<>> THEN cache
    ELSE InsertPairs(Insert(cache, Head(pairs)[1], Head(pairs)[2]), Tail(pairs))

\* A faulty variant of CallManyParallel: inputs found in the cache are not
\* evaluated again.
CallManyParallelMemoized(cf, inputs) ==
    [cf      |-> [cf EXCEPT !.cache =
                     InsertPairs(cf.cache,
                                 [i \in 1..Len(inputs) |-> <<inputs[i], Bypass(cf, inputs[i])>>])],
     outputs |-> [i \in 1..Len(inputs) |-> Bypass(cf, inputs[i])],
     invoked |-> SelectSeq(inputs, LAMBDA x : x \notin DOMAIN cf.cache)]

\* CachedFunction::call_many_parallel: the function is evaluated on every
\* input, then every pair is inserted into the cache.  invoked lists the
\* inputs the wrapped function was called on.
CallManyParallel(cf, inputs) ==
    LET pairs == [i \in 1..Len(inputs) |-> <<inputs[i], Bypass(cf, inputs[i])>>]
    IN  [cf      |-> [cf EXCEPT !.cache = InsertPairs(cf.cache, pairs)],
         outputs |-> [i \in 1..Len(inputs) |-> pairs[i][2]],
         invoked |-> inputs]

\* A faulty variant of Call: the cache is not consulted.
CallUncached(cf, input) ==
    [cf      |-> [cf EXCEPT !.cache = Insert(cf.cache, input, Bypass(cf, input))],
     output  |-> Bypass(cf, input),
     invoked |-> <<input>>]

\* CachedFunction::call
Call(cf, input) ==
    IF input \in DOMAIN cf.cache
    THEN [cf |-> cf, output |-> cf.cache[input], invoked |-> <<>>]
    ELSE [cf      |-> [cf EXCEPT !.cache = Insert(cf.cache, input, Bypass(cf, input))],
          output  |-> Bypass(cf, input),
          invoked |-> <<input>>]

\* CachedFunction::clear
Clear(cf) == [cf EXCEPT !.cache = EmptyMap]

\* ----------------------------------------------------------------- petgraph

\* Graph::new
GraphNew == [nodes |-> <<>>, edges |-> <<>>]

\* Graph::add_node
AddNode(g, weight) == [g EXCEPT !.nodes = Append(g.nodes, weight)]

\* node_indices().find(|n| node_weight(n) == weight): 0 when there is none.
FindNode(g, weight) ==
    IF \E i \in 1..Len(g.nodes) : g.nodes[i] = weight
    THEN CHOOSE i \in 1..Len(g.nodes) :
            g.nodes[i] = weight /\ \A j \in 1..(i - 1) : g.nodes[j] # weight
    ELSE 0

\* A faulty variant of UpdateEdge: Graph::add_edge, which always adds.
AddEdge(g, a, b, weight) ==
    [g EXCEPT !.edges = Append(g.edges, [source |-> a, target |-> b, weight |-> weight])]

\* Graph::update_edge: the weight of an existing edge a -> b is replaced,
\* otherwise the edge is added.
UpdateEdge(g, a, b, weight) ==
    IF \E i \in 1..Len(g.edges) : g.edges[i].source = a /\ g.edges[i].target = b
    THEN LET ix == CHOOSE i \in 1..Len(g.edges) :
                      g.edges[i].source = a /\ g.edges[i].target = b
         IN  [g EXCEPT !.edges[ix].weight = weight]
    ELSE [g EXCEPT !.edges = Append(g.edges, [source |-> a, target |-> b, weight |-> weight])]

\* --------------------------------------------------------------- Simulation

\* A faulty variant of New: the initial state is not interned.
NewUninterned(initial_state, state_transition_generator) ==
    [state_transition_graph     |-> AddNode(GraphNew, Hash(initial_state)),
     probability_distributions  |-> (0 :> (Hash(initial_state) :> One)),
     known_states               |-> EmptyMap,
     known_transitions          |-> EmptyMap,
     state_transition_generator |-> CachedFunctionNew(state_transition_generator)]

\* Simulation::new
New(initial_state, state_transition_generator) ==
    [state_transition_graph     |-> AddNode(GraphNew, Hash(initial_state)),
     probability_distributions  |-> (0 :> (Hash(initial_state) :> One)),
     known_states               |-> (Hash(initial_state) :> initial_state),
     known_transitions          |-> EmptyMap,
     state_transition_generator |-> CachedFunctionNew(state_transition_generator)]

RECURSIVE AddNodes(_, _)
AddNodes(g, weights) ==
    IF weights = <<>> THEN g ELSE AddNodes(AddNode(g, Head(weights)), Tail(weights))

\* A faulty variant of NewWithDistribution: no node is added to the graph.
NewWithDistributionNoNodes(probabilities, order, state_transition_generator) ==
    [state_transition_graph     |-> GraphNew,
     probability_distributions  |->
        (0 :> [h \in {Hash(s) : s \in DOMAIN probabilities} |->
                  probabilities[CHOOSE s \in DOMAIN probabilities : Hash(s) = h]]),
     known_states               |->
        [h \in {Hash(s) : s \in DOMAIN probabilities} |->
            CHOOSE s \in DOMAIN probabilities : Hash(s) = h],
     known_transitions          |-> EmptyMap,
     state_transition_generator |-> CachedFunctionNew(state_transition_generator)]

\* Simulation::new_with_distribution; order is the order in which the
\* HashMap probabilities is iterated when the nodes are added.
NewWithDistribution(probabilities, order, state_transition_generator) ==
    [state_transition_graph     |->
        AddNodes(GraphNew, [i \in 1..Len(order) |-> Hash(order[i])]),
     probability_distributions  |->
        (0 :> [h \in {Hash(s) : s \in DOMAIN probabilities} |->
                  probabilities[CHOOSE s \in DOMAIN probabilities : Hash(s) = h]]),
     known_states               |->
        [h \in {Hash(s) : s \in DOMAIN probabilities} |->
            CHOOSE s \in DOMAIN probabilities : Hash(s) = h],
     known_transitions          |-> EmptyMap,
     state_transition_generator |-> CachedFunctionNew(state_transition_generator)]

\* A faulty variant of Time: the time of the initial distribution.
TimeInitial(sim) == 0

\* Simulation::time
Time(sim) ==
    IF DOMAIN sim.probability_distributions = {} THEN 0
    ELSE Max(DOMAIN sim.probability_distributions)

\* A faulty variant of ProbabilityDistributionOk: the newest distribution is
\* not found.
ProbabilityDistributionOkPast(sim, time) ==
    /\ time \in DOMAIN sim.probability_distributions \ {Max(DOMAIN sim.probability_distributions)}
    /\ \A h \in DOMAIN sim.probability_distributions[time] : h \in DOMAIN sim.known_states

\* Simulation::probability_distribution succeeds: the time is recorded
\* (expect) and every digest of the distribution is a known state (unwrap).
ProbabilityDistributionOk(sim, time) ==
    /\ time \in DOMAIN sim.probability_distributions
    /\ \A h \in DOMAIN sim.probability_distributions[time] : h \in DOMAIN sim.known_states

\* Simulation::probability_distribution: the distribution keyed by state.
ProbabilityDistribution(sim, time) ==
    LET d == sim.probability_distributions[time]
    IN  [s \in {sim.known_states[h] : h \in DOMAIN d} |->
            d[CHOOSE h \in DOMAIN d : sim.known_states[h] = s]]

\* A faulty variant of StateProbability: unwrap_or(1.0).
StateProbabilityOrOne(sim, state, time) ==
    IF /\ time \in DOMAIN sim.probability_distributions
       /\ Hash(state) \in DOMAIN sim.probability_distributions[time]
    THEN sim.probability_distributions[time][Hash(state)]
    ELSE One

\* Simulation::state_probability
StateProbability(sim, state, time) ==
    IF /\ time \in DOMAIN sim.probability_distributions
       /\ Hash(state) \in DOMAIN sim.probability_distributions[time]
    THEN sim.probability_distributions[time][Hash(state)]
    ELSE Zero

\* A faulty variant of RowsAreStochastic: only a sum above 1 is rejected.
RowsAreStochasticUpTo(state_transition_probabilities) ==
    \A i \in 1..Len(state_transition_probabilities) :
        PLeq(PSumSeq([j \in 1..Len(state_transition_probabilities[i]) |->
                         state_transition_probabilities[i][j][3]]), One)

\* next_step, the assertion: every successor list sums to 1 after rounding.
RowsAreStochastic(state_transition_probabilities) ==
    \A i \in 1..Len(state_transition_probabilities) :
        RoundsToOne(PSumSeq([j \in 1..Len(state_transition_probabilities[i]) |->
                                state_transition_probabilities[i][j][3]]))

\* next_step, the fold: entry(hash(new_state)).and_modify(+=).or_insert for
\* every successor of one source state.
\* A faulty variant of Accumulate: the entry is overwritten instead of added to.
AccumulateOverwrite(dist, h, c) == Insert(dist, h, c)

\* next_step, the fold: entry(h).and_modify(|p| *p += c).or_insert(c)
Accumulate(dist, h, c) ==
    IF h \in DOMAIN dist THEN [dist EXCEPT ![h] = PAdd(@, c)] ELSE Insert(dist, h, c)

\* A faulty variant of Contribution: the probability of the source state is dropped.
ContributionUnweighted(current_state_probability, probability) == probability

\* next_step, the fold: current_state_probability * probability
Contribution(current_state_probability, probability) ==
    PMul(current_state_probability, probability)

RECURSIVE FoldRow(_, _, _)
FoldRow(dist, next_states, current_state_probability) ==
    IF next_states = <<>> THEN dist
    ELSE FoldRow(Accumulate(dist, Hash(Head(next_states)[1]),
                            Contribution(current_state_probability, Head(next_states)[3])),
                 Tail(next_states), current_state_probability)

RECURSIVE FoldRows(_, _, _, _)
FoldRows(dist, state_transition_probabilities, state_probability_distribution, i) ==
    IF i > Len(state_transition_probabilities) THEN dist
    ELSE FoldRows(FoldRow(dist, state_transition_probabilities[i],
                          state_probability_distribution[i][2]),
                  state_transition_probabilities, state_probability_distribution, i + 1)

\* A faulty variant of InternTransition: the transition is not interned.
InternTransitionNever(known_transitions, transition) == known_transitions

\* next_step: self.known_transitions.insert(hash(transition), transition.clone())
InternTransition(known_transitions, transition) ==
    Insert(known_transitions, Hash(transition), transition)

\* next_step, the registries: every successor state and transition is
\* inserted under its digest.
RECURSIVE InternRow(_, _)
InternRow(sim, next_states) ==
    IF next_states = <<>> THEN sim
    ELSE InternRow(
            [sim EXCEPT
                !.known_states = Insert(@, Hash(Head(next_states)[1]), Head(next_states)[1]),
                !.known_transitions = InternTransition(@, Head(next_states)[2])],
            Tail(next_states))

RECURSIVE InternRows(_, _, _)
InternRows(sim, state_transition_probabilities, i) ==
    IF i > Len(state_transition_probabilities) THEN sim
    ELSE InternRows(InternRow(sim, state_transition_probabilities[i]),
                    state_transition_probabilities, i + 1)

\* next_step, the graph: for every successor of old_state the source node is
\* looked up (unwrap), the target node is looked up or added, and the edge is
\* updated.  ok is FALSE when the lookup of the source node failed.
RECURSIVE GraphRow(_, _, _)
GraphRow(acc, next_states, old_state) ==
    IF next_states = <<>> \/ ~acc.ok THEN acc
    ELSE LET source == FindNode(acc.g, Hash(old_state))
             found  == FindNode(acc.g, Hash(Head(next_states)[1]))
             g1     == IF found = 0 THEN AddNode(acc.g, Hash(Head(next_states)[1])) ELSE acc.g
             target == IF found = 0 THEN Len(g1.nodes) ELSE found
         IN  IF source = 0 THEN [acc EXCEPT !.ok = FALSE]
             ELSE GraphRow(
                    [acc EXCEPT !.g = UpdateEdge(g1, source, target,
                                        <<Hash(Head(next_states)[2]), Head(next_states)[3]>>)],
                    Tail(next_states), old_state)

RECURSIVE GraphRows(_, _, _, _)
GraphRows(acc, state_transition_probabilities, state_probability_distribution, i) ==
    IF i > Len(state_transition_probabilities) \/ ~acc.ok THEN acc
    ELSE GraphRows(GraphRow(acc, state_transition_probabilities[i],
                            state_probability_distribution[i][1]),
                   state_transition_probabilities, state_probability_distribution, i + 1)

\* The model explores the unbounded walk only up to MaxState: a step whose
\* successors leave the modelled positions is not taken.
WithinBounds(sim, time) ==
    \A s \in DOMAIN ProbabilityDistribution(sim, time) :
        \A j \in 1..Len(Bypass(sim.state_transition_generator, s)) :
            Bypass(sim.state_transition_generator, s)[j][1]
                \in (0..(NumStates - 1)) \cup ((-MaxState)..MaxState)

\* Simulation::next_step on sim, with order the order of the vector
\* state_probability_distribution.  panic names the failed assertion or
\* unwrap ("none" when the step completes), sim is the engine as the step
\* leaves it, ret the returned distribution, invoked the inputs the generator
\* was called on.
NextStepOn(sim, order) ==
    LET initial_time == Time(sim)
        distribution == ProbabilityDistribution(sim, initial_time)
        state_probability_distribution ==
            [i \in 1..Len(order) |-> <<order[i], distribution[order[i]]>>]
        called == CallManyParallel(sim.state_transition_generator,
                                   [i \in 1..Len(order) |-> order[i]])
        state_transition_probabilities == called.outputs
        sim1 == [sim EXCEPT !.state_transition_generator = called.cf]
        new_distribution ==
            FoldRows(EmptyMap, state_transition_probabilities,
                     state_probability_distribution, 1)
        sim2 == [sim1 EXCEPT !.probability_distributions =
                                Insert(@, initial_time + 1, new_distribution)]
        sim3 == InternRows(sim2, state_transition_probabilities, 1)
        graph == GraphRows([g |-> sim3.state_transition_graph, ok |-> TRUE],
                           state_transition_probabilities,
                           state_probability_distribution, 1)
        sim4 == [sim3 EXCEPT !.state_transition_graph = graph.g]
    IN  IF ~RowsAreStochastic(state_transition_probabilities)
        THEN [panic |-> "assert", sim |-> sim1, ret |-> EmptyMap, invoked |-> called.invoked]
        ELSE IF ~graph.ok
        THEN [panic |-> "unwrap", sim |-> sim4, ret |-> EmptyMap, invoked |-> called.invoked]
        ELSE [panic |-> "none", sim |-> sim4,
              ret |-> ProbabilityDistribution(sim4, initial_time + 1),
              invoked |-> called.invoked]

\* The orders in which next_step may enumerate the current distribution.
StepOrders(sim) == Orders(DOMAIN ProbabilityDistribution(sim, Time(sim)))

\* ------------------------------------------------------------------ entropy

\* The value sum(p * log2 p).abs() of Simulation::entropy, represented
\* exactly: with the probabilities written a_h / n over their common
\* denominator n, sum(p * log2 p) = (sum(a_h * log2 a_h) - sum(a_h) * log2 n) / n,
\* a rational combination of the logarithms of the primes dividing the a_h
\* and n.  Two entropies are equal real numbers exactly when these
\* coefficients are equal.  nan records 0.0 * log2(0.0), which is NaN.
\* The sum is never positive for probabilities in [0, 1], so abs() negates it.
LCM(a, b) == (a \div GCD(a, b)) * b

RECURSIVE LCMOf(_)
LCMOf(S) ==
    IF S = {} THEN 1
    ELSE LET x == CHOOSE y \in S : TRUE IN LCM(x, LCMOf(S \ {x}))

IsPrime(q) == q > 1 /\ \A d \in 2..(q - 1) : q % d # 0

RECURSIVE Valuation(_, _)
Valuation(q, n) == IF n # 0 /\ n % q = 0 THEN 1 + Valuation(q, n \div q) ELSE 0

RECURSIVE ISumMap(_)
ISumMap(m) ==
    IF DOMAIN m = {} THEN 0
    ELSE LET k == CHOOSE x \in DOMAIN m : TRUE
         IN  m[k] + ISumMap([x \in DOMAIN m \ {k} |-> m[x]])

EntropyOf(distribution) ==
    LET n == LCMOf({distribution[s][2] : s \in DOMAIN distribution})
        a == [s \in DOMAIN distribution |-> distribution[s][1] * (n \div distribution[s][2])]
        top == Max({n} \cup Range(a))
        divides(q) == n % q = 0 \/ (\E s \in DOMAIN a : a[s] # 0 /\ a[s] % q = 0)
        primes == {q \in 2..top : divides(q) /\ IsPrime(q)}
        coefficient(q) ==
            PNorm(ISumMap(a) * Valuation(q, n)
                    - ISumMap([s \in DOMAIN a |-> a[s] * Valuation(q, a[s])]), n)
    IN  [nan  |-> \E s \in DOMAIN distribution : distribution[s][1] = 0,
         log2 |-> [q \in {r \in primes : coefficient(r) # Zero} |-> coefficient(q)]]

\* Simulation::entropy
Entropy(sim, time) == EntropyOf(ProbabilityDistribution(sim, time))

\* Equality of two entropies as real numbers; a NaN is equal to nothing.
EntropyEq(x, y) == ~x.nan /\ ~y.nan /\ x.log2 = y.log2

\* ------------------------------------------------------------- f64 rounding

RECURSIVE IsPowerOfTwo(_)
IsPowerOfTwo(k) == k = 1 \/ (k > 1 /\ k % 2 = 0 /\ IsPowerOfTwo(k \div 2))

Dyadic(p) == IsPowerOfTwo(p[2])

\* The value x, computed from the f64 u by products and sums, is an f64.  A
\* u that is itself a dyadic rational is held exactly, and so is every
\* dyadic x within the range of the model.  Otherwise u is 1.0 / n rounded
\* to the 53 bits of the significand, which it fills, and a multiple of it
\* is an f64 only when the factor is a power of two.
F64Representable(x, u) ==
    IF Dyadic(u) THEN Dyadic(x)
    ELSE x = Zero \/ LET c == PMul(x, <<u[2], u[1]>>)
                     IN  IsPowerOfTwo(c[1]) /\ IsPowerOfTwo(c[2])

\* The contributions <<digest, source probability, probability>> of a step
\* in the order in which the fold of next_step adds them.
RECURSIVE F64Contributions(_, _, _)
F64Contributions(state_transition_probabilities, state_probability_distribution, i) ==
    IF i > Len(state_transition_probabilities) THEN <<>>
    ELSE [j \in 1..Len(state_transition_probabilities[i]) |->
             <<Hash(state_transition_probabilities[i][j][1]),
               state_probability_distribution[i][2],
               state_transition_probabilities[i][j][3]>>]
         \o F64Contributions(state_transition_probabilities,
                             state_probability_distribution, i + 1)

\* Every product and every sum of the fold is an f64: IEEE 754 operations
\* are correctly rounded, so each of them returns its real result.
RECURSIVE F64FoldIsExact(_, _, _)
F64FoldIsExact(dist, contributions, u) ==
    contributions = <<>> \/
    LET h == Head(contributions)[1]
        c == Contribution(Head(contributions)[2], Head(contributions)[3])
        v == IF h \in DOMAIN dist THEN PAdd(dist[h], c) ELSE c
    IN  /\ F64Representable(c, u)
        /\ F64Representable(v, u)
        /\ F64FoldIsExact(Insert(dist, h, v), Tail(contributions), u)

\* The f64 arithmetic of the step next_step takes on sim, enumerating the
\* current distribution in order, is exact; u is the f64 the probabilities
\* of the current distribution were computed from.
F64StepIsExact(sim, order, u) ==
    LET distribution == ProbabilityDistribution(sim, Time(sim))
    IN  F64FoldIsExact(EmptyMap,
            F64Contributions([i \in 1..Len(order) |->
                                 Bypass(sim.state_transition_generator, order[i])],
                             [i \in 1..Len(order) |-> <<order[i], distribution[order[i]]>>],
                             1),
            u)

\* == on the f64 entropies x and y of two distributions.  Computed from
\* values the step held exactly, the entropies are equal f64 when they are
\* equal real numbers (the distributions hold the same values) and differ
\* otherwise.  Computed from rounded values, entropies that are equal real
\* numbers may or may not be equal f64.
F64EntropyEq(exact, x, y) ==
    IF ~EntropyEq(x, y) THEN {FALSE}
    ELSE IF exact THEN {TRUE}
    ELSE BOOLEAN

\* ------------------------------------------------- transition_rate_matrix

\* A faulty variant of MatrixIndex: the indices are swapped.
MatrixIndexTransposed(source_index, target_index) == <<target_index, source_index>>

\* transition_rate_matrix: get_mut((*source_index, *target_index))
MatrixIndex(source_index, target_index) == <<source_index, target_index>>

\* transition_rate_matrix, the loop over edge_references(): ok is FALSE when
\* a node of an edge has no index in ordering_hash_map (unwrap).
RECURSIVE MatrixRows(_, _, _, _)
MatrixRows(acc, g, ordering_hash_map, i) ==
    IF i > Len(g.edges) \/ ~acc.ok THEN acc
    ELSE LET source_hash == g.nodes[g.edges[i].source]
             target_hash == g.nodes[g.edges[i].target]
         IN  IF source_hash \notin DOMAIN ordering_hash_map
                \/ target_hash \notin DOMAIN ordering_hash_map
             THEN [acc EXCEPT !.ok = FALSE]
             ELSE MatrixRows(
                    [acc EXCEPT !.m[MatrixIndex(ordering_hash_map[source_hash],
                                                ordering_hash_map[target_hash])] =
                                    g.edges[i].weight[2]],
                    g, ordering_hash_map, i + 1)

\* Simulation::transition_rate_matrix after its traversal; order is the
\* order in which known_states is iterated.
TransitionRateMatrixOn(sim, order) ==
    LET n == Len(order)
        ordering_hash_map == [h \in DOMAIN sim.known_states |->
                                 CHOOSE i \in 1..n : order[i] = h]
        built == MatrixRows([m |-> [ij \in (1..n) \X (1..n) |-> Zero], ok |-> TRUE],
                            sim.state_transition_graph, ordering_hash_map, 1)
    IN  [panic    |-> IF built.ok THEN "none" ELSE "unwrap",
         matrix   |-> built.m,
         ordering |-> [i \in 1..n |-> sim.known_states[order[i]]]]

\* -------------------------------------------------------------------- Cache

\* RuleCache::new
RuleCacheNew == [condition |-> EmptyMap, actions |-> EmptyMap]

\* A faulty variant of RuleCacheAddCondition: an existing condition is
\* overwritten.
RuleCacheAddConditionOverwrite(rule_cache, base_state_hash, applies) ==
    [rule_cache |-> [rule_cache EXCEPT
                        !.condition = Insert(@, base_state_hash, applies)],
     result     |-> "Ok"]

\* RuleCache::add_condition
RuleCacheAddCondition(rule_cache, base_state_hash, applies) ==
    IF base_state_hash \in DOMAIN rule_cache.condition
    THEN IF rule_cache.condition[base_state_hash] = applies
         THEN [rule_cache |-> rule_cache, result |-> "Ok"]
         ELSE [rule_cache |-> rule_cache, result |-> "ConditionAlreadyExists"]
    ELSE [rule_cache |-> [rule_cache EXCEPT
                             !.condition = Insert(@, base_state_hash, applies)],
          result     |-> "Ok"]

\* RuleCache::add_action
RuleCacheAddAction(rule_cache, base_state_hash, new_state_hash) ==
    IF base_state_hash \in DOMAIN rule_cache.actions
    THEN IF rule_cache.actions[base_state_hash] = new_state_hash
         THEN [rule_cache |-> rule_cache, result |-> "Ok"]
         ELSE [rule_cache |-> rule_cache, result |-> "ActionAlreadyExists"]
    ELSE [rule_cache |-> [rule_cache EXCEPT
                             !.actions = Insert(@, base_state_hash, new_state_hash)],
          result     |-> "Ok"]

\* Cache::new
CacheNew == [rules |-> EmptyMap]

\* Cache::add_rule, called where the rule name is not in the cache.
AddRule(c, rule_name) == [c EXCEPT !.rules = Insert(@, rule_name, RuleCacheNew)]

\* The ? of Cache::add_condition and Cache::add_action: the result of the
\* rule cache r is stored under rule_name in c and its error is converted
\* by From<RuleCacheError> for CacheError.
Converted(c, rule_name, r) ==
    [cache  |-> [c EXCEPT !.rules[rule_name] = r.rule_cache],
     result |-> IF r.result = "Ok" THEN "Ok" ELSE "InternalError"]

\* Cache::add_condition
CacheAddCondition(c, rule_name, base_state_hash, applies) ==
    IF rule_name \in DOMAIN c.rules
    THEN Converted(c, rule_name,
             RuleCacheAddCondition(c.rules[rule_name], base_state_hash, applies))
    ELSE Converted(AddRule(c, rule_name), rule_name,
             RuleCacheAddCondition(RuleCacheNew, base_state_hash, applies))

\* Cache::add_action
CacheAddAction(c, rule_name, base_state_hash, new_state_hash) ==
    IF rule_name \in DOMAIN c.rules
    THEN Converted(c, rule_name,
             RuleCacheAddAction(c.rules[rule_name], base_state_hash, new_state_hash))
    ELSE Converted(AddRule(c, rule_name), rule_name,
             RuleCacheAddAction(RuleCacheNew, base_state_hash, new_state_hash))

\* ConditionCacheUpdate::from
ConditionCacheUpdate(rule_name, base_state_hash, applies) ==
    [kind |-> "condition", rule_name |-> rule_name,
     base_state_hash |-> base_state_hash, stored |-> applies]

\* ActionCacheUpdate::from
ActionCacheUpdate(rule_name, base_state_hash, new_state_hash) ==
    [kind |-> "action", rule_name |-> rule_name,
     base_state_hash |-> base_state_hash, stored |-> new_state_hash]

\* Cache::apply_condition_update
ApplyConditionUpdate(c, update) ==
    CacheAddCondition(c, update.rule_name, update.base_state_hash, update.stored)

\* Cache::apply_action_update
ApplyActionUpdate(c, update) ==
    CacheAddAction(c, update.rule_name, update.base_state_hash, update.stored)

\* The calls made by the loops of Cache::merge for one rule of the other
\* cache: its conditions, then its actions, each map in the order hashes.
RuleUpdates(rule_name, rule_cache, hashes) ==
    LET present(m) == SelectSeq(hashes, LAMBDA h : h \in DOMAIN m)
        conditions == present(rule_cache.condition)
        actions    == present(rule_cache.actions)
    IN  [i \in 1..Len(conditions) |->
            ConditionCacheUpdate(rule_name, conditions[i],
                                 rule_cache.condition[conditions[i]])]
        \o
        [i \in 1..Len(actions) |->
            ActionCacheUpdate(rule_name, actions[i],
                              rule_cache.actions[actions[i]])]

\* The calls made by Cache::merge when the rules of the other cache are
\* iterated in the order rule_names.
RECURSIVE MergeUpdates(_, _, _)
MergeUpdates(other, rule_names, hashes) ==
    IF rule_names = <<>> THEN <<>>
    ELSE RuleUpdates(Head(rule_names), other.rules[Head(rule_names)], hashes)
         \o MergeUpdates(other, Tail(rule_names), hashes)

\* The loops of Cache::merge; the ? returns at the first error and keeps
\* what was added before it.
RECURSIVE MergeFold(_, _)
MergeContinue(r, updates) ==
    IF r.result # "Ok" THEN r ELSE MergeFold(r.cache, updates)

MergeFold(c, updates) ==
    IF updates = <<>> THEN [cache |-> c, result |-> "Ok"]
    ELSE MergeContinue(
             IF Head(updates).kind = "condition"
             THEN ApplyConditionUpdate(c, Head(updates))
             ELSE ApplyActionUpdate(c, Head(updates)),
             Tail(updates))

\* Cache::merge
CacheMerge(c, other, rule_names, hashes) ==
    MergeFold(c, MergeUpdates(other, rule_names, hashes))

\* ---------------------------------------------------------- ReachableStates

\* ReachableStates::new
ReachableStatesNew == EmptyMap

\* A faulty variant of AppendState: the sum is stored without the check.
AppendStateUnchecked(states, state_hash, state_probability) ==
    [reachable_states |->
        Insert(states, state_hash,
               IF state_hash \in DOMAIN states
               THEN PAdd(states[state_hash], state_probability)
               ELSE state_probability),
     result |-> "Ok"]

\* ReachableStates::append_state (state.rs)
AppendState(states, state_hash, state_probability) ==
    IF state_hash \in DOMAIN states
    THEN IF ~PLeq(PAdd(states[state_hash], state_probability), One)
         THEN [reachable_states |-> states, result |-> "ProbabilityOutOfRange"]
         ELSE [reachable_states |->
                  Insert(states, state_hash,
                         PAdd(states[state_hash], state_probability)),
               result |-> "Ok"]
    ELSE [reachable_states |-> Insert(states, state_hash, state_probability),
          result |-> "Ok"]

\* ReachableStates::merge (state.rs); order is the order in which the other
\* map is iterated, and the ? returns at the first error.
RECURSIVE ReachableStatesMerge(_, _, _)
ReachableStatesMergeContinue(r, other, order) ==
    IF r.result # "Ok" THEN r
    ELSE ReachableStatesMerge(r.reachable_states, other, order)

ReachableStatesMerge(states, other, order) ==
    IF order = <<>> THEN [reachable_states |-> states, result |-> "Ok"]
    ELSE ReachableStatesMergeContinue(
             AppendState(states, Head(order), other[Head(order)]),
             other, Tail(order))

\* ------------------------------------------- rule-based Simulation (lib.rs)

\* Simulation::new.  The states of the model are integers, a rule is a record
\* as made by Rule and its closures are those of Applies and Apply; the
\* resources and their capacities are not modelled, and the entropy, which is
\* computed from reachable_states, is not stored.
SimulationNew ==
    [possible_states |-> EmptyMap, reachable_states |-> EmptyMap,
     rules |-> EmptyMap, time |-> 0, cache |-> CacheNew]

\* Simulation::create
SimulationCreate(initial_state, rules) ==
    [possible_states  |-> (Hash(initial_state) :> initial_state),
     reachable_states |-> (Hash(initial_state) :> One),
     rules            |-> rules,
     time             |-> 0,
     cache            |-> [rules |-> [name \in DOMAIN rules |-> RuleCacheNew]]]

\* Simulation::check_if_rule_applies; update is the Option as a sequence of
\* at most one element.
CheckIfRuleApplies(simulation, rule_name, state_hash) ==
    IF simulation.rules[rule_name].weight = Zero
    THEN [applies |-> FALSE, update |-> <<>>]
    ELSE IF state_hash \in DOMAIN simulation.cache.rules[rule_name].condition
    THEN [applies |-> simulation.cache.rules[rule_name].condition[state_hash],
          update  |-> <<>>]
    ELSE [applies |-> Applies(simulation.rules[rule_name],
                              simulation.possible_states[state_hash]),
          update  |-> <<ConditionCacheUpdate(rule_name, state_hash,
                            Applies(simulation.rules[rule_name],
                                    simulation.possible_states[state_hash]))>>]

\* Simulation::get_new_state
GetNewState(simulation, base_state_hash, rule_name) ==
    IF /\ base_state_hash \in DOMAIN simulation.cache.rules[rule_name].actions
       /\ simulation.cache.rules[rule_name].actions[base_state_hash]
             \in DOMAIN simulation.possible_states
    THEN [new_state |-> simulation.possible_states[
                            simulation.cache.rules[rule_name].actions[base_state_hash]],
          update    |-> <<>>]
    ELSE [new_state |-> Apply(simulation.rules[rule_name],
                              simulation.possible_states[base_state_hash]),
          update    |-> <<ActionCacheUpdate(rule_name, base_state_hash,
                              Hash(Apply(simulation.rules[rule_name],
                                         simulation.possible_states[base_state_hash])))>>]

\* new_base_state_probability after the loop of
\* get_reachable_states_from_base_state over the applying rules.
RECURSIVE NewBaseStateProbability(_, _, _)
NewBaseStateProbability(simulation, applying, probability) ==
    IF applying = <<>> THEN probability
    ELSE NewBaseStateProbability(simulation, Tail(applying),
             PMul(probability,
                  NothingFactor(simulation.rules[Head(applying)].weight)))

\* applying_rules_probability_weight_sum after the same loop.
RECURSIVE ApplyingRulesProbabilityWeightSum(_, _)
ApplyingRulesProbabilityWeightSum(simulation, applying) ==
    IF applying = <<>> THEN Zero
    ELSE PAdd(simulation.rules[Head(applying)].weight,
              ApplyingRulesProbabilityWeightSum(simulation, Tail(applying)))

\* reachable_states_from_base_state_by_rule_probability_weight after the same
\* loop: HashMap::insert keeps the weight of the last rule that leads to a
\* state.
ByRuleProbabilityWeight(simulation, base_state_hash, applying) ==
    LET target(i) == Hash(GetNewState(simulation, base_state_hash, applying[i]).new_state)
    IN  [h \in {target(i) : i \in 1..Len(applying)} |->
            simulation.rules[
                applying[Max({i \in 1..Len(applying) : target(i) = h})]].weight]

\* Simulation::get_probabilities_for_reachable_states_from_base_state
GetProbabilitiesForReachableStatesFromBaseState(by_weight, base_state_hash, base_state_probability, new_base_state_probability, weight_sum) ==
    [h \in DOMAIN by_weight \ {base_state_hash} |->
        PDiv(PMul(PMul(by_weight[h], base_state_probability),
                  PAdd(One, <<-new_base_state_probability[1],
                              new_base_state_probability[2]>>)),
             weight_sum)]

\* Simulation::get_reachable_states_from_base_state; rule_order is the order
\* in which self.rules is iterated.
GetReachableStatesFromBaseState(simulation, base_state_hash, base_state_probability, rule_order) ==
    LET applying == SelectSeq(rule_order, LAMBDA name :
                        CheckIfRuleApplies(simulation, name, base_state_hash).applies)
        new_base_state_probability ==
            NewBaseStateProbability(simulation, applying, base_state_probability)
        new_states == [i \in 1..Len(applying) |->
                          GetNewState(simulation, base_state_hash, applying[i])]
    IN  [new_reachable_states |->
            (IF new_base_state_probability # Zero
             THEN (base_state_hash :> new_base_state_probability)
             ELSE EmptyMap)
            @@ GetProbabilitiesForReachableStatesFromBaseState(
                   ByRuleProbabilityWeight(simulation, base_state_hash, applying),
                   base_state_hash, base_state_probability,
                   new_base_state_probability,
                   ApplyingRulesProbabilityWeightSum(simulation, applying)),
         new_possible_states |->
            [h \in {Hash(new_states[i].new_state) : i \in 1..Len(applying)} |-> h[1]],
         condition_cache_updates |->
            UNION {Range(CheckIfRuleApplies(simulation, rule_order[i],
                                            base_state_hash).update) :
                   i \in 1..Len(rule_order)},
         action_cache_updates |->
            UNION {Range(new_states[i].update) : i \in 1..Len(applying)}]

\* ReachableStates::append_states (lib.rs): append_state adds the
\* probability to the stored one, or stores it.
AppendStates(states, other) ==
    [h \in DOMAIN states \cup DOMAIN other |->
        IF h \notin DOMAIN other THEN states[h]
        ELSE IF h \notin DOMAIN states THEN other[h]
        ELSE PAdd(states[h], other[h])]

\* The writes of the two while let loops of update_reachable_states.
RECURSIVE InsertUpdates(_, _)
InsertUpdates(c, updates) ==
    IF updates = {} THEN c
    ELSE LET u == CHOOSE x \in updates : TRUE
         IN  InsertUpdates(
                 IF u.kind = "condition"
                 THEN [c EXCEPT !.rules[u.rule_name].condition =
                                    Insert(@, u.base_state_hash, u.stored)]
                 ELSE [c EXCEPT !.rules[u.rule_name].actions =
                                    Insert(@, u.base_state_hash, u.stored)],
                 updates \ {u})

\* The check at the end of update_reachable_states:
\* 0.9999999 < probability_sum < 1.0000001.
ProbabilitySumIsOne(probability_sum) ==
    LET difference == PAdd(probability_sum, <<-1, 1>>)
    IN  Abs(difference[1]) <= (difference[2] - 1) \div 10000000

\* The for_each of update_reachable_states over the old reachable states
\* base_states, every result computed from self as it was before the loop
\* (the cache is written after the loop and possible_states only gains states).
RECURSIVE Distribute(_, _, _, _)
Distribute(simulation, acc, base_states, rule_order) ==
    IF base_states = {} THEN acc
    ELSE LET h == CHOOSE x \in base_states : TRUE
             r == GetReachableStatesFromBaseState(simulation, h,
                      simulation.reachable_states[h], rule_order)
         IN  Distribute(simulation,
                 [reachable_states |->
                     AppendStates(acc.reachable_states, r.new_reachable_states),
                  possible_states  |-> r.new_possible_states @@ acc.possible_states,
                  updates |-> acc.updates \cup r.condition_cache_updates
                                          \cup r.action_cache_updates],
                 base_states \ {h}, rule_order)

\* Simulation::update_reachable_states
UpdateReachableStates(simulation, rule_order) ==
    LET acc == Distribute(simulation,
                   [reachable_states |-> ReachableStatesNew,
                    possible_states  |-> simulation.possible_states,
                    updates          |-> {}],
                   DOMAIN simulation.reachable_states, rule_order)
    IN  [simulation |->
            [simulation EXCEPT
                !.reachable_states = acc.reachable_states,
                !.possible_states  = acc.possible_states,
                !.cache            = InsertUpdates(simulation.cache, acc.updates)],
         panic |-> IF ProbabilitySumIsOne(PSumMap(acc.reachable_states))
                   THEN "none" ELSE "Probability sum is not 1"]

\* Simulation::next_step (lib.rs)
SimulationNextStepOn(simulation, rule_order) ==
    LET r == UpdateReachableStates(simulation, rule_order)
    IN  IF r.panic # "none" THEN r
        ELSE [simulation |-> [r.simulation EXCEPT !.time = @ + 1],
              panic      |-> "none"]

\* -------------------------------------------------------------------- state

VARIABLES
    sim,          \* the engine (self)
    clone,        \* simulation_clone of a cache-only full_traversal
    pc,           \* "idle", "full_traversal" (inside its loop) or "panicked"
    frame,        \* the running operation: its name, the argument of
                  \* full_traversal and num_current_known_states
    ret,          \* the last completed operation and what it returned
                  \* (op = "none" while an operation is running)
    invocations,  \* how often the user generator was invoked on each state
    ops,          \* number of public operations started
    pre,          \* the engine when the running (or last) operation started
    traversed,    \* whether a full_traversal has returned (ever), and whether
                  \* one had when the running (or last) operation started (before)
    cached_function,  \* a CachedFunction used on its own, outside an engine
    cache,            \* a Cache (cache.rs) used on its own
    reachable_states, \* a ReachableStates (state.rs) used on its own
    simulation        \* a rule-based Simulation (lib.rs)

vars == <<sim, clone, pc, frame, ret, invocations, ops, pre, traversed, cached_function,
          cache, reachable_states, simulation>>

NoClone == EmptyMap

NoFrame == [op |-> "none", modify_cache_only |-> FALSE, num_current_known_states |-> 0]

\* The invocation counts after the generator was called on each of inputs.
RECURSIVE Count(_, _)
Count(counts, inputs) ==
    IF inputs = <<>> THEN counts
    ELSE Count(IF Head(inputs) \in DOMAIN counts
               THEN [counts EXCEPT ![Head(inputs)] = @ + 1]
               ELSE Insert(counts, Head(inputs), 1),
               Tail(inputs))

Init ==
    /\ \E g \in GeneratorIds :
          \/ \E s \in InitialStates : sim = New(s, g)
          \/ \E d \in InitialDistributions : \E order \in Orders(DOMAIN d) :
                sim = NewWithDistribution(d, order, g)
    /\ clone = NoClone
    /\ pc = "idle"
    /\ frame = NoFrame
    /\ ret = [op |-> "new", panic |-> "none"]
    /\ invocations = EmptyMap
    /\ ops = 0
    /\ pre = sim
    /\ traversed = [ever |-> FALSE, before |-> FALSE]
    /\ cached_function = CachedFunctionNew("cycle")
    /\ cache = CacheNew
    /\ reachable_states = ReachableStatesNew
    /\ simulation = SimulationNew

\* A call of next_step.
NextStep ==
    /\ pc = "idle"
    /\ ops < MaxOps
    /\ WithinBounds(sim, Time(sim))
    /\ \E order \in StepOrders(sim) :
          \E r \in {NextStepOn(sim, order)} :
              /\ sim' = r.sim
              /\ pc' = IF r.panic = "none" THEN "idle" ELSE "panicked"
              /\ ret' = [op |-> "next_step", panic |-> r.panic, value |-> r.ret]
              /\ invocations' = Count(invocations, r.invoked)
    /\ ops' = ops + 1
    /\ pre' = sim
    /\ traversed' = [traversed EXCEPT !.before = traversed.ever]
    /\ UNCHANGED <<clone, frame, cached_function, cache, reachable_states, simulation>>

\* Entry of full_traversal(modify_cache_only), called by the user (op =
\* "full_traversal") or by one of the analysis operations.
EnterTraversal(op, modify_cache_only) ==
    /\ pc = "idle"
    /\ ops < MaxOps
    /\ pc' = "full_traversal"
    /\ frame' = [op |-> op, modify_cache_only |-> modify_cache_only,
                 num_current_known_states |-> 0]
    /\ clone' = IF modify_cache_only THEN sim ELSE NoClone
    /\ ops' = ops + 1
    /\ pre' = sim
    /\ traversed' = [traversed EXCEPT !.before = traversed.ever]
    /\ ret' = [op |-> "none", panic |-> "none"]
    /\ UNCHANGED <<sim, invocations, cached_function, cache, reachable_states, simulation>>

FullTraversal == \E modify_cache_only \in BOOLEAN :
    EnterTraversal("full_traversal", modify_cache_only)

\* The engine the loop of full_traversal steps.
Stepped == IF frame.modify_cache_only THEN clone ELSE sim

\* A faulty variant of LoopCondition: the loop body runs once.
LoopConditionOnce == frame.num_current_known_states = 0

\* full_traversal: while num_current_known_states != known_states.len()
LoopCondition ==
    frame.num_current_known_states # Cardinality(DOMAIN Stepped.known_states)

\* A faulty variant of CopyBack: the whole clone is assigned to self.
CopyBackAll(self, simulation_clone) == simulation_clone

\* A faulty variant of CopyBack: the graph and the cache are not copied.
CopyBackRegistriesOnly(self, simulation_clone) ==
    [self EXCEPT
        !.known_states = simulation_clone.known_states,
        !.known_transitions = simulation_clone.known_transitions]

\* full_traversal, cache-only: what an iteration copies from
\* simulation_clone into self.
CopyBack(self, simulation_clone) ==
    [self EXCEPT
        !.known_states = simulation_clone.known_states,
        !.known_transitions = simulation_clone.known_transitions,
        !.state_transition_graph = simulation_clone.state_transition_graph,
        !.state_transition_generator = simulation_clone.state_transition_generator]

\* One iteration of the loop of full_traversal.
FullTraversalLoop ==
    /\ pc = "full_traversal"
    /\ LoopCondition
    /\ WithinBounds(Stepped, Time(Stepped))
    /\ \E order \in StepOrders(Stepped) :
          \E r \in {NextStepOn(Stepped, order)} :
              /\ invocations' = Count(invocations, r.invoked)
              /\ IF r.panic # "none"
                 THEN /\ pc' = "panicked"
                      /\ ret' = [op |-> frame.op, panic |-> r.panic]
                      /\ clone' = NoClone
                      /\ frame' = NoFrame
                      /\ sim' = IF frame.modify_cache_only THEN sim ELSE r.sim
                 ELSE /\ pc' = "full_traversal"
                      /\ frame' = [frame EXCEPT !.num_current_known_states =
                                      Cardinality(DOMAIN Stepped.known_states)]
                      /\ clone' = IF frame.modify_cache_only THEN r.sim ELSE clone
                      /\ sim' = IF frame.modify_cache_only
                                THEN CopyBack(sim, r.sim)
                                ELSE r.sim
                      /\ UNCHANGED ret
    /\ UNCHANGED <<ops, pre, traversed, cached_function, cache, reachable_states, simulation>>

\* full_traversal returns to the user.
FullTraversalReturn ==
    /\ pc = "full_traversal"
    /\ ~LoopCondition
    /\ frame.op = "full_traversal"
    /\ pc' = "idle"
    /\ ret' = [op |-> "full_traversal", panic |-> "none",
               modify_cache_only |-> frame.modify_cache_only]
    /\ frame' = NoFrame
    /\ clone' = NoClone
    /\ traversed' = [traversed EXCEPT !.ever = TRUE]
    /\ UNCHANGED <<sim, invocations, ops, pre, cached_function, cache, reachable_states, simulation>>

\* A faulty variant of AnalysisTraversalMode: full_traversal(false).
AnalysisTraversalModeModifying == FALSE

\* The argument of the full_traversal call of the analysis operations:
\* self.full_traversal(true).
AnalysisTraversalMode == TRUE

\* A call of uniform_distribution_is_steady: it starts with
\* self.full_traversal(true).
UniformDistributionIsSteady ==
    EnterTraversal("uniform_distribution_is_steady", AnalysisTraversalMode)

\* The uniform distribution uniform_distribution_is_steady builds over the
\* known states of self.
UniformDistribution(s) ==
    [h \in DOMAIN s.known_states |-> PNorm(1, Cardinality(DOMAIN s.known_states))]

\* The clone of self with the uniform distribution inserted at
\* next_time = time() + 1.
WithUniformDistribution(s) ==
    [s EXCEPT !.probability_distributions = Insert(@, Time(s) + 1, UniformDistribution(s))]

\* uniform_distribution_is_steady after its traversal: the uniform
\* distribution is inserted into a clone of self, the clone is stepped once
\* and the two entropies are compared.
UniformDistributionIsSteadyRest ==
    /\ pc = "full_traversal"
    /\ ~LoopCondition
    /\ frame.op = "uniform_distribution_is_steady"
    /\ \E simulation_clone \in {WithUniformDistribution(sim)} :
       \E order \in StepOrders(simulation_clone) :
       \E r \in {NextStepOn(simulation_clone, order)} :
          /\ invocations' = Count(invocations, r.invoked)
          /\ pc' = IF r.panic = "none" THEN "idle" ELSE "panicked"
          /\ IF r.panic # "none"
             THEN ret' = [op |-> "uniform_distribution_is_steady", panic |-> r.panic]
             ELSE \E uniform_entropy_after_step_eq \in
                        F64EntropyEq(
                            F64StepIsExact(simulation_clone, order,
                                           PNorm(1, Cardinality(DOMAIN sim.known_states))),
                            Entropy(r.sim, Time(sim) + 2),
                            Entropy(simulation_clone, Time(sim) + 1)) :
                     ret' = [op |-> "uniform_distribution_is_steady", panic |-> "none",
                             value |-> uniform_entropy_after_step_eq]
    /\ frame' = NoFrame
    /\ clone' = NoClone
    /\ traversed' = [traversed EXCEPT !.ever = TRUE]
    /\ UNCHANGED <<sim, ops, pre, cached_function, cache, reachable_states, simulation>>

\* A call of transition_rate_matrix: it starts with self.full_traversal(true).
TransitionRateMatrix ==
    EnterTraversal("transition_rate_matrix", AnalysisTraversalMode)

\* transition_rate_matrix after its traversal.
TransitionRateMatrixRest ==
    /\ pc = "full_traversal"
    /\ ~LoopCondition
    /\ frame.op = "transition_rate_matrix"
    /\ \E order \in HashOrders(DOMAIN sim.known_states) :
          \E r \in {TransitionRateMatrixOn(sim, order)} :
              /\ pc' = IF r.panic = "none" THEN "idle" ELSE "panicked"
              /\ ret' = [op |-> "transition_rate_matrix", panic |-> r.panic,
                         matrix |-> r.matrix, ordering |-> r.ordering]
    /\ frame' = NoFrame
    /\ clone' = NoClone
    /\ traversed' = [traversed EXCEPT !.ever = TRUE]
    /\ UNCHANGED <<sim, invocations, ops, pre, cached_function, cache, reachable_states, simulation>>

Next ==
    \/ NextStep
    \/ FullTraversal
    \/ FullTraversalLoop
    \/ FullTraversalReturn
    \/ UniformDistributionIsSteady
    \/ UniformDistributionIsSteadyRest
    \/ TransitionRateMatrix
    \/ TransitionRateMatrixRest

Spec == Init /\ [][Next]_vars

\* A step of the running operation: an iteration of the loop of
\* full_traversal (it assigns num_current_known_states, which the loop
\* condition found different), the return of full_traversal, the code an
\* analysis operation runs after its traversal, or a panic.  Each of them
\* changes pc or frame, and every step that changes pc or frame while an
\* operation runs is one of them.
Running ==
    /\ pc = "full_traversal"
    /\ LoopCondition => WithinBounds(Stepped, Time(Stepped))
    /\ pc' \in {"idle", "full_traversal", "panicked"}
    /\ frame' \in {NoFrame,
                   [frame EXCEPT !.num_current_known_states =
                       Cardinality(DOMAIN Stepped.known_states)]}

\* The engine is single-threaded and nothing preempts a running operation:
\* the loop of full_traversal and the code after it run on.
FairSpec == Spec /\ WF_<<pc, frame>>(Running)

\* An engine constructed on a generator built by
\* get_state_transition_generator.
RuleInit ==
    /\ \E g \in RuleGeneratorIds :
          \/ \E s \in InitialStates : sim = New(s, g)
          \/ \E d \in InitialDistributions : \E order \in Orders(DOMAIN d) :
                sim = NewWithDistribution(d, order, g)
    /\ clone = NoClone
    /\ pc = "idle"
    /\ frame = NoFrame
    /\ ret = [op |-> "new", panic |-> "none"]
    /\ invocations = EmptyMap
    /\ ops = 0
    /\ pre = sim
    /\ traversed = [ever |-> FALSE, before |-> FALSE]
    /\ cached_function = CachedFunctionNew("cycle")
    /\ cache = CacheNew
    /\ reachable_states = ReachableStatesNew
    /\ simulation = SimulationNew

\* The engine stepped on the generators of the rule composition layer.
RuleSpec == RuleInit /\ [][NextStep]_vars

\* ================================================================== claims

\* The generator of the engine and its successor list at a state.
GeneratorOf(s) == s.state_transition_generator.function

Successors(g, state) == Generator(g, state)

\* The support of the distribution the engine s holds at time t, as states.
Support(s, t) == {h[1] : h \in DOMAIN s.probability_distributions[t]}

\* The entries (source, position in the successor list of the source) whose
\* successor is state n, for the sources in sources.
EntriesInto(g, sources, n) ==
    {e \in UNION {{<<s, j>> : j \in 1..Len(Successors(g, s))} : s \in sources} :
        Successors(g, e[1])[e[2]][1] = n}

\* The push-forward of the distribution dist (digest -> probability) under
\* the generator g, written as a sum per successor state.
PushForward(g, dist) ==
    LET sources == {h[1] : h \in DOMAIN dist}
        targets == UNION {{Successors(g, s)[j][1] : j \in 1..Len(Successors(g, s))} :
                             s \in sources}
    IN  [h \in {Hash(n) : n \in targets} |->
            PSumMap([e \in EntriesInto(g, sources, h[1]) |->
                        PMul(dist[Hash(e[1])], Successors(g, e[1])[e[2]][3])])]

NextStepReturned == ret.op = "next_step" /\ ret.panic = "none"

\* C1: a completed next_step has stored at time t0 + 1, t0 the time before
\* the call, the push-forward of the distribution at t0: each successor
\* state carries the sum of D[t0][s] * q over all entries leading to it and
\* there are no other entries; the returned map is that distribution keyed
\* by state.
C1_NextStepIsPushForward ==
    NextStepReturned =>
        /\ Time(sim) = Time(pre) + 1
        /\ sim.probability_distributions[Time(sim)] =
              PushForward(GeneratorOf(pre), pre.probability_distributions[Time(pre)])
        /\ DOMAIN ret.value = Support(sim, Time(sim))
        /\ \A s \in DOMAIN ret.value :
              ret.value[s] = sim.probability_distributions[Time(sim)][Hash(s)]

\* A next_step has completed in which some successor state received
\* probability from two different source states.
C1_Witness ==
    /\ NextStepReturned
    /\ \E n \in Support(sim, Time(sim)) :
          \E e1, e2 \in EntriesInto(GeneratorOf(pre), Support(pre, Time(pre)), n) :
              e1[1] # e2[1]

\* Every successor list of the generator g, at the positions of the model,
\* sums to 1.
RowsSumToOne(g) ==
    \A s \in (0..(NumStates - 1)) \cup ((-MaxState)..MaxState) :
        PSumSeq([j \in 1..Len(Successors(g, s)) |-> Successors(g, s)[j][3]]) = One

InitialSumIsOne(s) == PSumMap(s.probability_distributions[0]) = One

\* C2: when the initial distribution sums to 1 and every successor list of
\* the generator sums to 1, every distribution stored in the history of the
\* engine (and of the clone a cache-only traversal steps) sums to 1.
C2_MassIsConserved ==
    (InitialSumIsOne(sim) /\ RowsSumToOne(GeneratorOf(sim))) =>
        /\ \A t \in DOMAIN sim.probability_distributions :
              PSumMap(sim.probability_distributions[t]) = One
        /\ (pc = "full_traversal" /\ frame.modify_cache_only) =>
              \A t \in DOMAIN clone.probability_distributions :
                  PSumMap(clone.probability_distributions[t]) = One

\* A modifying full_traversal after a next_step has stored at least three
\* distributions, on a normalized chain.
C2_Witness ==
    /\ InitialSumIsOne(sim) /\ RowsSumToOne(GeneratorOf(sim))
    /\ ret.op = "full_traversal" /\ ret.panic = "none"
    /\ Time(pre) >= 1
    /\ Time(sim) >= 3
    /\ \E t \in DOMAIN sim.probability_distributions :
          Cardinality(DOMAIN sim.probability_distributions[t]) >= 3

\* C3: the user generator is invoked at most once on any state, whatever
\* operations are called on the engine.
C3_GeneratorInvokedOncePerState ==
    \A s \in DOMAIN invocations : invocations[s] <= 1

\* C4: a next_step on a distribution with a state whose successor list does
\* not sum to 1 fails, and a failed next_step leaves the distribution
\* history, time(), both registries and the graph as they were.
C4_FailedStepPublishesNothing ==
    /\ (ret.op = "next_step"
          /\ \E s \in Support(pre, Time(pre)) :
                PSumSeq([j \in 1..Len(Successors(GeneratorOf(pre), s)) |->
                            Successors(GeneratorOf(pre), s)[j][3]]) # One)
          => ret.panic = "assert"
    /\ (ret.op = "next_step" /\ ret.panic # "none") =>
          /\ sim.probability_distributions = pre.probability_distributions
          /\ Time(sim) = Time(pre)
          /\ sim.known_states = pre.known_states
          /\ sim.known_transitions = pre.known_transitions
          /\ sim.state_transition_graph = pre.state_transition_graph

\* A next_step has failed on an engine that had completed a step before.
C4_Witness ==
    /\ ret.op = "next_step"
    /\ ret.panic = "assert"
    /\ Time(pre) >= 1
    /\ Len(pre.state_transition_graph.edges) >= 1

\* The positions the model covers.
ModelPositions == (0..(NumStates - 1)) \cup ((-MaxState)..MaxState)

\* The states reachable from the states S under the generator g; the
\* successors of positions outside the model are not followed.
RECURSIVE Closure(_, _)
Closure(g, S) ==
    LET next == S \cup UNION {{Successors(g, s)[j][1] : j \in 1..Len(Successors(g, s))} :
                                 s \in S \cap ModelPositions}
    IN  IF next = S THEN S ELSE Closure(g, next)

\* The states reachable from the support of the initial distribution.
Reachable(s) == Closure(GeneratorOf(s), Support(s, 0))

\* The reachable set of the walk generator is all integers; within the
\* model this shows as a reachable set that leaves the modelled positions.
ReachableIsFinite(s) == Reachable(s) \subseteq ModelPositions

KnownStates(s) == Range(s.known_states)

TraversalReturned == ret.op = "full_traversal" /\ ret.panic = "none"

\* An iteration of the loop of full_traversal has completed in this step.
Iterated == pc = "full_traversal" /\ pc' = "full_traversal"

\* The step leaves the history of self as it is / appends one entry to it.
HistoryKept == sim'.probability_distributions = sim.probability_distributions

HistoryGrown ==
    /\ DOMAIN sim'.probability_distributions =
          DOMAIN sim.probability_distributions \cup {Time(sim) + 1}
    /\ Time(sim') = Time(sim) + 1
    /\ \A t \in DOMAIN sim.probability_distributions :
          sim'.probability_distributions[t] = sim.probability_distributions[t]

\* C5 as stated: full_traversal(false) runs on a clone and leaves the
\* history and time() of self unchanged, full_traversal(true) steps self so
\* that the history grows by one entry per iteration.
C5_AsStated ==
    [][/\ Iterated => IF frame.modify_cache_only THEN HistoryGrown ELSE HistoryKept
       /\ (ret'.op = "full_traversal" /\ ret'.panic = "none" /\ ~ret'.modify_cache_only)
             => (sim'.probability_distributions = pre.probability_distributions
                 /\ Time(sim') = Time(pre))]_vars

\* C5 amended: the argument is modify_cache_only.  full_traversal(true)
\* runs on a clone, copies back only the known states, the known
\* transitions, the graph and the memoization cache in every iteration, and
\* leaves the history and time() of self unchanged; full_traversal(false)
\* steps self, so that the history grows by one entry per iteration.
C5_ArgumentIsModifyCacheOnly ==
    [][/\ Iterated =>
             IF frame.modify_cache_only
             THEN /\ HistoryKept
                  /\ sim'.known_states = clone'.known_states
                  /\ sim'.known_transitions = clone'.known_transitions
                  /\ sim'.state_transition_graph = clone'.state_transition_graph
                  /\ sim'.state_transition_generator = clone'.state_transition_generator
             ELSE HistoryGrown
       /\ (ret'.op = "full_traversal" /\ ret'.panic = "none" /\ ret'.modify_cache_only)
             => (sim'.probability_distributions = pre.probability_distributions
                 /\ Time(sim') = Time(pre))]_vars

\* A cache-only full_traversal has returned after discovering states.
C5_Witness ==
    /\ TraversalReturned
    /\ ret.modify_cache_only
    /\ Cardinality(DOMAIN sim.known_states) > Cardinality(DOMAIN pre.known_states)
    /\ Time(pre) >= 1

\* Every state reachable from the initial support is known, has its
\* successors in the cache, and the graph has an edge for each of its
\* successors.
Complete(s) ==
    /\ KnownStates(s) = Reachable(s)
    /\ DOMAIN s.known_states = {Hash(x) : x \in Reachable(s)}
    /\ \A x \in KnownStates(s) :
          /\ x \in DOMAIN s.state_transition_generator.cache
          /\ \A j \in 1..Len(Successors(GeneratorOf(s), x)) :
                \E i \in 1..Len(s.state_transition_graph.edges) :
                    LET e == s.state_transition_graph.edges[i]
                    IN  /\ s.state_transition_graph.nodes[e.source] = Hash(x)
                        /\ s.state_transition_graph.nodes[e.target] =
                              Hash(Successors(GeneratorOf(s), x)[j][1])

\* C6: when full_traversal returns, in either mode and after any number of
\* next_step calls, the known states are exactly the reachable states, each
\* has had its successors computed and the graph has an edge for every
\* (source, successor) pair of the generator.
C6_TraversalIsComplete == TraversalReturned => Complete(sim)

\* A cache-only full_traversal after a next_step has returned with every
\* position of the circle known.
C6_Witness ==
    /\ TraversalReturned
    /\ ret.modify_cache_only
    /\ Time(pre) >= 1
    /\ Cardinality(DOMAIN sim.known_states) = NumStates
    /\ Cardinality(DOMAIN pre.known_states) < NumStates

\* C7: with a finite reachable set a running full_traversal stops, with an
\* infinite one it never returns.
C7_TerminatesIffFinite ==
    /\ (pc = "full_traversal" /\ ReachableIsFinite(sim)) ~> (pc # "full_traversal")
    /\ [][(pc = "full_traversal" /\ ~ReachableIsFinite(sim)) => pc' # "idle"]_vars

\* A modifying full_traversal has returned after at least three iterations.
C7_Witness ==
    /\ TraversalReturned
    /\ ~ret.modify_cache_only
    /\ ReachableIsFinite(sim)
    /\ Time(sim) >= Time(pre) + 3

\* C8: a full_traversal called after a full_traversal has returned leaves
\* the known states, the known transitions and the graph (nodes, edges and
\* edge payloads) as they were.
C8_SecondTraversalChangesNothing ==
    (TraversalReturned /\ traversed.before) =>
        /\ sim.known_states = pre.known_states
        /\ sim.known_transitions = pre.known_transitions
        /\ sim.state_transition_graph = pre.state_transition_graph

\* A second full_traversal has returned on a graph with several edges.
C8_Witness ==
    /\ TraversalReturned
    /\ traversed.before
    /\ Len(sim.state_transition_graph.edges) >= NumStates

\* The uniform distribution over the states R.
UniformOver(R) == [h \in {Hash(x) : x \in R} |-> PNorm(1, Cardinality(R))]

\* The sum of the probabilities of all entries leading to n from R.
ColumnSum(g, R, n) ==
    PSumMap([e \in EntriesInto(g, R, n) |-> Successors(g, e[1])[e[2]][3]])

\* C9: uniform_distribution_is_steady returns true exactly when one step
\* maps the uniform distribution over the reachable states to itself, which
\* is when every column of the transition matrix sums to 1.
C9_SteadyIffDoublyStochastic ==
    (ret.op = "uniform_distribution_is_steady" /\ ret.panic = "none") =>
        /\ ret.value <=>
              PushForward(GeneratorOf(sim), UniformOver(Reachable(sim)))
                  = UniformOver(Reachable(sim))
        /\ ret.value <=>
              \A n \in Reachable(sim) :
                  ColumnSum(GeneratorOf(sim), Reachable(sim), n) = One

AnalysisOps == {"transition_rate_matrix", "uniform_distribution_is_steady"}

\* C10: while transition_rate_matrix or uniform_distribution_is_steady runs
\* and when it has ended, the distribution history and time() of self are
\* as at the call; the registries only gain entries.
C10_AnalysisKeepsTimeline ==
    (frame.op \in AnalysisOps \/ ret.op \in AnalysisOps) =>
        /\ sim.probability_distributions = pre.probability_distributions
        /\ Time(sim) = Time(pre)
        /\ DOMAIN pre.known_states \subseteq DOMAIN sim.known_states
        /\ DOMAIN pre.known_transitions \subseteq DOMAIN sim.known_transitions
        /\ DOMAIN pre.state_transition_generator.cache
              \subseteq DOMAIN sim.state_transition_generator.cache
        /\ Len(pre.state_transition_graph.nodes) <= Len(sim.state_transition_graph.nodes)
        /\ Len(pre.state_transition_graph.edges) <= Len(sim.state_transition_graph.edges)

\* transition_rate_matrix has returned after a next_step, having discovered
\* states.
C10_Witness ==
    /\ ret.op = "transition_rate_matrix"
    /\ ret.panic = "none"
    /\ Time(pre) >= 1
    /\ Cardinality(DOMAIN sim.known_states) > Cardinality(DOMAIN pre.known_states)

\* The probability on the edge from state a to state b of the graph g, Zero
\* when g has no such edge.
EdgeProbability(g, a, b) ==
    LET between == {i \in 1..Len(g.edges) :
                       /\ g.nodes[g.edges[i].source] = Hash(a)
                       /\ g.nodes[g.edges[i].target] = Hash(b)}
    IN  IF between = {} THEN Zero ELSE g.edges[CHOOSE i \in between : TRUE].weight[2]

MatrixReturned == ret.op = "transition_rate_matrix" /\ ret.panic = "none"

\* C11: transition_rate_matrix returns an n x n matrix, n the number of
\* known states after its traversal, and an ordering that lists every known
\* state exactly once; the entry (i, j) is the probability on the edge of G
\* from ordering[i] to ordering[j], and 0 when G has no such edge.
C11_MatrixIsTheGraph ==
    MatrixReturned =>
        LET n == Cardinality(DOMAIN sim.known_states)
        IN  /\ DOMAIN ret.matrix = (1..n) \X (1..n)
            /\ Len(ret.ordering) = n
            /\ Range(ret.ordering) = KnownStates(sim)
            /\ \A i, j \in 1..n :
                  ret.matrix[<<i, j>>] =
                      EdgeProbability(sim.state_transition_graph,
                                      ret.ordering[i], ret.ordering[j])

\* transition_rate_matrix has returned the matrix of the biased circle: all
\* five positions are known, and the matrix is not symmetric.
C11_Witness ==
    /\ MatrixReturned
    /\ Cardinality(DOMAIN sim.known_states) = NumStates
    /\ \E i, j \in 1..Len(ret.ordering) :
          /\ ret.matrix[<<i, j>>] = ThreeTenths
          /\ ret.matrix[<<j, i>>] = SevenTenths

\* Sum of row i of a matrix with n columns.
RowSum(matrix, i, n) == PSumSeq([j \in 1..n |-> matrix[<<i, j>>]])

RulesOf(s) == Rules(RuleSetOf(GeneratorOf(s)))

\* The successor lists the generator of the engine has emitted so far: the
\* cache holds the list of every state the generator was invoked on.
Emitted == sim.state_transition_generator.cache

\* The positions in rules of the rules applicable at state, and of those
\* among them that lead to target.
Applicable(rules, state) == {i \in 1..Len(rules) : Applies(rules[i], state)}

LeadingTo(rules, state, target) ==
    {i \in Applicable(rules, state) : Apply(rules[i], state) = target}

\* Sum of the weights of the rules at the positions I.
RECURSIVE SumOfWeights(_, _)
SumOfWeights(rules, I) ==
    IF I = {} THEN Zero
    ELSE LET i == CHOOSE x \in I : TRUE
         IN  PAdd(rules[i].weight, SumOfWeights(rules, I \ {i}))

\* The joint non-firing probability of the rules at the positions I: the
\* product of 1 - w over the rules.
RECURSIVE JointNonFiring(_, _)
JointNonFiring(rules, I) ==
    IF I = {} THEN One
    ELSE LET i == CHOOSE x \in I : TRUE
         IN  PMul(PAdd(One, <<-(rules[i].weight[1]), rules[i].weight[2]>>),
                  JointNonFiring(rules, I \ {i}))

\* p_nothing and W of the composition at state, over the applicable rules.
PNothing(rules, state) == JointNonFiring(rules, Applicable(rules, state))

Denominator(rules, state) ==
    PAdd(PNothing(rules, state), SumOfWeights(rules, Applicable(rules, state)))

\* The probability an emitted list gives to the successor target: the sum
\* over its entries for target.
Mass(list, target) ==
    PSumMap([j \in {k \in 1..Len(list) : list[k][1] = target} |-> list[j][3]])

\* C13: in every emitted list, with p_nothing the product of 1 - w over the
\* rules applicable at the source state and W = p_nothing + the sum of the
\* applicable weights, a successor has the probability (sum of the weights
\* of the rules leading to it) / W, the source state p_nothing / W more.
C13_NormalizedByJointNonFiring ==
    \A state \in DOMAIN Emitted :
        \A j \in 1..Len(Emitted[state]) :
            LET target == Emitted[state][j][1]
                weights == SumOfWeights(RulesOf(sim),
                                        LeadingTo(RulesOf(sim), state, target))
                nothing == IF target = state THEN PNothing(RulesOf(sim), state) ELSE Zero
            IN  Emitted[state][j][3] =
                    PDiv(PAdd(weights, nothing), Denominator(RulesOf(sim), state))

\* C14: every emitted list has its probabilities in [0, 1] and summing to 1,
\* and next_step does not fail on an engine built on the composed generator.
C14_ComposedGeneratorIsNormalized ==
    /\ \A state \in DOMAIN Emitted :
          /\ \A j \in 1..Len(Emitted[state]) :
                PLeq(Zero, Emitted[state][j][3]) /\ PLeq(Emitted[state][j][3], One)
          /\ PSumSeq([j \in 1..Len(Emitted[state]) |-> Emitted[state][j][3]]) = One
    /\ ret.op = "next_step" => ret.panic = "none"

\* Exactly two rules apply at state, they lead to different successors other
\* than state, and both have the weight w.
TwoRulesOfWeight(rules, state, w) ==
    /\ Cardinality(Applicable(rules, state)) = 2
    /\ \A i \in Applicable(rules, state) :
          /\ rules[i].weight = w
          /\ Apply(rules[i], state) # state
          /\ LeadingTo(rules, state, Apply(rules[i], state)) = {i}

ThreeEighths == <<3, 8>>

\* C15: where two rules of weight 1 with distinct successors apply, each
\* transition has probability 0.5 and nothing stays; where both have weight
\* 0.5, 0.25 stays on the source state and each transition has 0.375.
C15_DocumentedExamples ==
    \A state \in DOMAIN Emitted :
        /\ TwoRulesOfWeight(RulesOf(sim), state, One) =>
              /\ \A i \in Applicable(RulesOf(sim), state) :
                    Mass(Emitted[state], Apply(RulesOf(sim)[i], state)) = Half
              /\ \A j \in 1..Len(Emitted[state]) : Emitted[state][j][1] # state
        /\ TwoRulesOfWeight(RulesOf(sim), state, Half) =>
              /\ \A i \in Applicable(RulesOf(sim), state) :
                    Mass(Emitted[state], Apply(RulesOf(sim)[i], state)) = ThreeEighths
              /\ Mass(Emitted[state], state) = Quarter

\* The descriptions of the rules at the positions I (all at least from)
\* joined by " | " in the order of rules.
RECURSIVE Joined(_, _, _)
Joined(rules, I, from) ==
    IF from > Len(rules) THEN ""
    ELSE IF from \notin I THEN Joined(rules, I, from + 1)
    ELSE IF \E k \in I : k > from
         THEN rules[from].description \o " | " \o Joined(rules, I, from + 1)
         ELSE rules[from].description

\* The weight the composition holds for target before it divides: the sum of
\* the weights of the rules leading to it.
MergedWeight(rules, state, target) ==
    SumOfWeights(rules, LeadingTo(rules, state, target))

\* The successors the applicable rules lead to.
Targets(rules, state) == {Apply(rules[i], state) : i \in Applicable(rules, state)}

\* The divisor of the composition: the product of 1 - merged weight over the
\* successors, plus the sum of the merged weights.
RECURSIVE MergedNonFiring(_, _, _)
MergedNonFiring(rules, state, T) ==
    IF T = {} THEN One
    ELSE LET t == CHOOSE x \in T : TRUE
         IN  PMul(PAdd(One, <<-(MergedWeight(rules, state, t)[1]),
                              MergedWeight(rules, state, t)[2]>>),
                  MergedNonFiring(rules, state, T \ {t}))

Divisor(rules, state) ==
    PAdd(MergedNonFiring(rules, state, Targets(rules, state)),
         SumOfWeights(rules, Applicable(rules, state)))

\* C16: an emitted list names no successor twice; a successor that several
\* applicable rules lead to has one entry, which carries the sum of their
\* weights (divided by the divisor of the list) and their descriptions
\* joined by " | " in the order of the rules.
C16_EqualSuccessorsAreMerged ==
    \A state \in DOMAIN Emitted :
        /\ \A j, k \in 1..Len(Emitted[state]) :
              Emitted[state][j][1] = Emitted[state][k][1] => j = k
        /\ \A target \in Targets(RulesOf(sim), state) \ {state} :
              \E j \in 1..Len(Emitted[state]) :
                  /\ Emitted[state][j][1] = target
                  /\ Emitted[state][j][2] =
                        Joined(RulesOf(sim), LeadingTo(RulesOf(sim), state, target), 1)
                  /\ Emitted[state][j][3] =
                        PDiv(MergedWeight(RulesOf(sim), state, target),
                             Divisor(RulesOf(sim), state))
        /\ state \in Targets(RulesOf(sim), state) =>
              \E j \in 1..Len(Emitted[state]) :
                  /\ Emitted[state][j][1] = state
                  /\ Emitted[state][j][2] \in
                        {Joined(RulesOf(sim), LeadingTo(RulesOf(sim), state, state), 1),
                         Joined(RulesOf(sim), LeadingTo(RulesOf(sim), state, state), 1)
                             \o " | Nothing"}

\* The generator has merged two rules with a common successor other than
\* the source state into one entry, next to an entry of a single rule.
C16_Witness ==
    \E state \in DOMAIN Emitted :
        /\ Cardinality(Targets(RulesOf(sim), state)) = 2
        /\ \E j \in 1..Len(Emitted[state]) :
              /\ Emitted[state][j][1] # state
              /\ Emitted[state][j][2] = "Backward | Return"
              /\ Emitted[state][j][3] = <<11, 21>>

\* C17: with p_nothing the joint non-firing probability of the applicable
\* rules, a list emitted where p_nothing > 0 has a self-loop on the source
\* state that carries p_nothing / W, described "Nothing", or carries the
\* weights of the rules leading back to the source as well and has
\* " | Nothing" appended to their descriptions; a list emitted where
\* p_nothing = 0 has no entry for doing nothing; where no rule applies the
\* list is the single self-loop (s, "Nothing", 1).
C17_DoNothingIsFolded ==
    \A state \in DOMAIN Emitted :
        LET rules == RulesOf(sim)
            back == LeadingTo(rules, state, state)
            loops == {j \in 1..Len(Emitted[state]) : Emitted[state][j][1] = state}
        IN  /\ PNothing(rules, state)[1] > 0 =>
                  \E j \in loops :
                      /\ Emitted[state][j][3] =
                            PDiv(PAdd(SumOfWeights(rules, back), PNothing(rules, state)),
                                 Denominator(rules, state))
                      /\ Emitted[state][j][2] =
                            IF back = {} THEN "Nothing"
                            ELSE Joined(rules, back, 1) \o " | Nothing"
            /\ PNothing(rules, state)[1] = 0 =>
                  \A j \in 1..Len(Emitted[state]) :
                      /\ Emitted[state][j][2] # "Nothing"
                      /\ j \in loops =>
                            Emitted[state][j][2] = Joined(rules, back, 1)
            /\ Applicable(rules, state) = {} =>
                  Emitted[state] = << <<state, "Nothing", One>> >>

\* C18: where exactly one rule applies, its successor has the probability w
\* of the rule and the source state the remaining 1 - w (both on the source
\* state when the rule leads back to it); no other successor is emitted.
C18_SingleRuleKeepsItsWeight ==
    \A state \in DOMAIN Emitted :
        \A i \in Applicable(RulesOf(sim), state) :
            Applicable(RulesOf(sim), state) = {i} =>
                LET w == RulesOf(sim)[i].weight
                    target == Apply(RulesOf(sim)[i], state)
                    rest == PAdd(One, <<-(w[1]), w[2]>>)
                IN  /\ \A j \in 1..Len(Emitted[state]) :
                          Emitted[state][j][1] \in {state, target}
                    /\ Mass(Emitted[state], target) =
                          IF target = state THEN One ELSE w
                    /\ Mass(Emitted[state], state) =
                          IF target = state THEN One ELSE rest

\* The generator was invoked where the single rule of weight 0.1 applies and
\* leads away from the source state: 0.1 moves and 0.9 stays.
C18_Witness ==
    \E state \in DOMAIN Emitted :
        /\ Cardinality(Applicable(RulesOf(sim), state)) = 1
        /\ \E i \in Applicable(RulesOf(sim), state) :
              /\ Apply(RulesOf(sim)[i], state) # state
              /\ RulesOf(sim)[i].weight = Tenth
              /\ Mass(Emitted[state], Apply(RulesOf(sim)[i], state)) = Tenth
        /\ Mass(Emitted[state], state) = <<9, 10>>

\* --------------------------------------------------- registries of the engine

\* A public operation has completed and none is running.
Completed == pc = "idle"

\* C19: after every completed public operation every digest of every stored
\* distribution is in the known-states registry (so that
\* probability_distribution(t) succeeds for every stored t).
C19_DistributionsAreInterned ==
    Completed =>
        \A t \in DOMAIN sim.probability_distributions :
            /\ DOMAIN sim.probability_distributions[t] \subseteq DOMAIN sim.known_states
            /\ ProbabilityDistributionOk(sim, t)

\* Two steps and a traversal have completed: three distributions are stored,
\* and the last one holds a state the initial one does not.
C19_Witness ==
    /\ Completed
    /\ traversed.ever
    /\ Time(sim) >= 2
    /\ \E h \in DOMAIN sim.probability_distributions[Time(sim)] :
          h \notin DOMAIN sim.probability_distributions[0]

\* C20: after every completed public operation every node and every edge of
\* G refers to known states, every edge carries the digest of a known
\* transition, and its probability lies between 0 and 1 (so that
\* state_transition_graph() succeeds).
C20_GraphIsInterned ==
    Completed =>
        LET g == sim.state_transition_graph
        IN  /\ \A i \in 1..Len(g.nodes) : g.nodes[i] \in DOMAIN sim.known_states
            /\ \A i \in 1..Len(g.edges) :
                  /\ g.edges[i].source \in 1..Len(g.nodes)
                  /\ g.edges[i].target \in 1..Len(g.nodes)
                  /\ g.nodes[g.edges[i].source] \in DOMAIN sim.known_states
                  /\ g.nodes[g.edges[i].target] \in DOMAIN sim.known_states
                  /\ g.edges[i].weight[1] \in DOMAIN sim.known_transitions
                  /\ PLeq(Zero, g.edges[i].weight[2])
                  /\ PLeq(g.edges[i].weight[2], One)

\* An operation has completed on an engine whose graph has edges of at
\* least two transitions, one of them added by a cache-only traversal.
C20_Witness ==
    /\ Completed
    /\ ret.op \in AnalysisOps
    /\ Len(sim.state_transition_graph.edges) > Len(pre.state_transition_graph.edges)
    /\ Cardinality({sim.state_transition_graph.edges[i].weight[1] :
                       i \in 1..Len(sim.state_transition_graph.edges)}) >= 2

\* ------------------------------------------------------ history of the engine

\* The stored times are 0, ..., time().
Contiguous(s) == DOMAIN s.probability_distributions = 0..Time(s)

\* Every stored distribution is stored, unchanged, after the step.
EntriesKept ==
    \A t \in DOMAIN sim.probability_distributions :
        /\ t \in DOMAIN sim'.probability_distributions
        /\ sim'.probability_distributions[t] = sim.probability_distributions[t]

\* The step is a call of next_step that returns.
NextStepReturns == pc = "idle" /\ ret'.op = "next_step" /\ ret'.panic = "none"

\* C21: the stored times are always {0, ..., time()}; no step of any
\* operation deletes or changes a stored distribution; a step adds no entry
\* or exactly the entry time() + 1, and a next_step that returns adds it, so
\* that time() grows by exactly 1.
C21_HistoryIsAppendOnly ==
    [][/\ Contiguous(sim) /\ Contiguous(sim')
       /\ EntriesKept
       /\ DOMAIN sim'.probability_distributions \in
             {DOMAIN sim.probability_distributions,
              DOMAIN sim.probability_distributions \cup {Time(sim) + 1}}
       /\ NextStepReturns =>
             /\ Time(sim') = Time(sim) + 1
             /\ DOMAIN sim'.probability_distributions =
                   DOMAIN sim.probability_distributions \cup {Time(sim) + 1}]_vars

\* A third distribution has been stored by a next_step after a traversal
\* that stepped the engine itself.
C21_Witness ==
    /\ NextStepReturned
    /\ traversed.before
    /\ Time(sim) >= 3
    /\ Time(pre) = Time(sim) - 1
    /\ sim.probability_distributions[Time(sim)] # sim.probability_distributions[1]

\* -------------------------------------------------- exploration of the engine

\* The digests of the nodes of the graph g, and the (source, target) pairs
\* of digests its edges join.
NodeSet(g) == Range(g.nodes)

EdgePairs(g) ==
    {<<g.nodes[g.edges[i].source], g.nodes[g.edges[i].target]>> : i \in 1..Len(g.edges)}

NoPayload == <<>>

\* The payload (transition digest, probability) of the edge of g between the
\* digests a and b, NoPayload when g has no such edge.
EdgePayload(g, a, b) ==
    LET between == {i \in 1..Len(g.edges) :
                       g.nodes[g.edges[i].source] = a /\ g.nodes[g.edges[i].target] = b}
    IN  IF between = {} THEN NoPayload ELSE g.edges[CHOOSE i \in between : TRUE].weight

\* Known states, known transitions, nodes and edges of self are kept by the step.
ExplorationKept ==
    /\ DOMAIN sim.known_states \subseteq DOMAIN sim'.known_states
    /\ DOMAIN sim.known_transitions \subseteq DOMAIN sim'.known_transitions
    /\ NodeSet(sim.state_transition_graph) \subseteq NodeSet(sim'.state_transition_graph)
    /\ EdgePairs(sim.state_transition_graph) \subseteq EdgePairs(sim'.state_transition_graph)

\* The payload the edge from source to the j-th successor of list holds when
\* next_step, on the engine with graph g, writes that successor: the payload
\* of the last earlier entry of list with the same successor, or else the
\* payload the edge has in g.
PayloadBefore(g, list, source, j) ==
    LET earlier == {k \in 1..(j - 1) : list[k][1] = list[j][1]}
    IN  IF earlier # {}
        THEN <<Hash(list[Max(earlier)][2]), list[Max(earlier)][3]>>
        ELSE EdgePayload(g, Hash(source), Hash(list[j][1]))

\* Every update_edge of a next_step on the engine s writes a new edge or the
\* payload the edge already holds.
WritesAreIdentical(s) ==
    \A source \in Support(s, Time(s)) :
        \A j \in 1..Len(Successors(GeneratorOf(s), source)) :
            PayloadBefore(s.state_transition_graph,
                          Successors(GeneratorOf(s), source), source, j)
                \in {NoPayload,
                     <<Hash(Successors(GeneratorOf(s), source)[j][2]),
                       Successors(GeneratorOf(s), source)[j][3]>>}

\* The step is a next_step that has written the graph: a call of next_step
\* that returns, or an iteration of full_traversal.
GraphWritten == NextStepReturns \/ Iterated

Constructed == ops = 0 /\ ret.op = "new"

\* The distributions the constructors are called with: those handed to
\* new_with_distribution and, for new, the point distribution of the state.
ConstructedFrom ==
    InitialDistributions \cup {(s :> One) : s \in InitialStates}

\* C24: right after construction the history is {0: dist}, time() is 0, the
\* known states are the states of dist, G has one node per state and no
\* edge, no transition is known and the generator has not been invoked;
\* new(s, g) builds what new_with_distribution({s: 1}, g) builds.
C24_Construction ==
    /\ Constructed =>
          /\ DOMAIN sim.probability_distributions = {0}
          /\ ProbabilityDistribution(sim, 0) \in ConstructedFrom
          /\ Time(sim) = 0
          /\ DOMAIN sim.known_states = DOMAIN sim.probability_distributions[0]
          /\ {sim.known_states[h] : h \in DOMAIN sim.known_states} =
                DOMAIN ProbabilityDistribution(sim, 0)
          /\ NodeSet(sim.state_transition_graph) = DOMAIN sim.known_states
          /\ Len(sim.state_transition_graph.nodes) = Cardinality(DOMAIN sim.known_states)
          /\ sim.state_transition_graph.edges = <<>>
          /\ sim.known_transitions = EmptyMap
          /\ sim.state_transition_generator.cache = EmptyMap
          /\ invocations = EmptyMap
    /\ \A s \in InitialStates : \A g \in GeneratorIds :
          New(s, g) = NewWithDistribution((s :> One), <<s>>, g)

\* An engine constructed from a distribution over two states.
C24_Witness ==
    /\ Constructed
    /\ Cardinality(DOMAIN ProbabilityDistribution(sim, 0)) = 2
    /\ Len(sim.state_transition_graph.nodes) = 2

\* ------------------------------------------------------- the circular walk

\* tests::full_traversal: full_traversal(false) has returned on the engine
\* built by new(0, g) for the walk on the circle of NumStates states.
CircleTraversed ==
    /\ TraversalReturned
    /\ ~ret.modify_cache_only
    /\ pre = New(0, "cycle")

\* C30: after full_traversal(false) on the circular walk started in 0 the
\* engine knows NumStates = 5 states and two transitions, the graph has five
\* nodes and ten edges, and the distribution at time() has four atoms.
C30_CircularWalk ==
    CircleTraversed =>
        /\ Cardinality(DOMAIN sim.known_states) = NumStates
        /\ Cardinality(DOMAIN sim.known_transitions) = 2
        /\ Len(sim.state_transition_graph.nodes) = NumStates
        /\ Len(sim.state_transition_graph.edges) = 2 * NumStates
        /\ Cardinality(DOMAIN ProbabilityDistribution(sim, Time(sim))) = 4

C30_Witness ==
    /\ CircleTraversed
    /\ Time(sim) = 3
    /\ DOMAIN ProbabilityDistribution(sim, Time(sim)) = {1, 2, 3, 4}

\* ------------------------------------------------------------------ queries

\* The times and states the query methods are called with.
QueryTimes == 0..(MaxOps + 2)

QueryStates == 0..(NumStates - 1)

\* A call of probability_distribution(time) on the idle engine.
QueryProbabilityDistribution ==
    /\ pc = "idle"
    /\ \E time \in QueryTimes :
          IF ProbabilityDistributionOk(sim, time)
          THEN /\ pc' = "idle"
               /\ ret' = [op |-> "probability_distribution", time |-> time,
                          panic |-> "none", value |-> ProbabilityDistribution(sim, time)]
          ELSE /\ pc' = "panicked"
               /\ ret' = [op |-> "probability_distribution", time |-> time,
                          panic |-> "expect"]
    /\ pre' = sim
    /\ UNCHANGED <<sim, clone, frame, invocations, ops, traversed, cached_function, cache, reachable_states, simulation>>

\* A call of entropy(time) on the idle engine; it starts with
\* self.probability_distribution(time).
QueryEntropy ==
    /\ pc = "idle"
    /\ \E time \in QueryTimes :
          IF ProbabilityDistributionOk(sim, time)
          THEN /\ pc' = "idle"
               /\ ret' = [op |-> "entropy", time |-> time,
                          panic |-> "none", value |-> Entropy(sim, time)]
          ELSE /\ pc' = "panicked"
               /\ ret' = [op |-> "entropy", time |-> time, panic |-> "expect"]
    /\ pre' = sim
    /\ UNCHANGED <<sim, clone, frame, invocations, ops, traversed, cached_function, cache, reachable_states, simulation>>

\* A call of state_probability(state, time) on the idle engine.
QueryStateProbability ==
    /\ pc = "idle"
    /\ \E state \in QueryStates : \E time \in QueryTimes :
          ret' = [op |-> "state_probability", state |-> state, time |-> time,
                  panic |-> "none", value |-> StateProbability(sim, state, time)]
    /\ pre' = sim
    /\ UNCHANGED <<sim, clone, pc, frame, invocations, ops, traversed, cached_function, cache, reachable_states, simulation>>

QueryNext ==
    \/ NextStep
    \/ QueryProbabilityDistribution
    \/ QueryEntropy
    \/ QueryStateProbability

\* The engine stepped and queried.
QuerySpec == Init /\ [][QueryNext]_vars

\* The last operation was probability_distribution or entropy.
DistributionQueried == ret.op \in {"probability_distribution", "entropy"}

\* C25: probability_distribution(t) and entropy(t) fail for every
\* t > time() and succeed for every t <= time(), and a failed call leaves
\* the engine as it was.
C25_QueriesFailBeyondTime ==
    DistributionQueried =>
        /\ ret.time > Time(pre) => ret.panic # "none"
        /\ ret.time <= Time(pre) => ret.panic = "none"
        /\ ret.panic # "none" => sim = pre

\* entropy of the time after the newest one fails on a stepped engine.
C25_Witness ==
    /\ ret.op = "entropy"
    /\ ret.time = Time(sim) + 1
    /\ Time(sim) >= 1
    /\ ret.panic # "none"
    /\ pc = "panicked"

\* The last operation was state_probability.
StateQueried == ret.op = "state_probability"

\* C26: state_probability(s, t) never fails: it returns the stored
\* probability when D[t] exists and holds s, and 0.0 otherwise.
C26_StateProbabilityIsTotal ==
    StateQueried =>
        /\ ret.panic = "none"
        /\ pc # "panicked"
        /\ sim = pre
        /\ IF ret.time <= Time(sim)
              /\ ret.state \in DOMAIN ProbabilityDistribution(sim, ret.time)
           THEN ret.value = ProbabilityDistribution(sim, ret.time)[ret.state]
           ELSE ret.value = Zero

\* state_probability of a state the stored distribution does not hold, and
\* of a time beyond time(), on a stepped engine.
C26_Witness ==
    /\ StateQueried
    /\ Time(sim) >= 1
    /\ ret.value = Zero
    /\ \/ ret.time > Time(sim)
       \/ /\ ret.time = Time(sim)
          /\ ret.state \notin DOMAIN ProbabilityDistribution(sim, ret.time)

\* ---------------------------------------------------- CachedFunction in use

\* The functions wrapped, the inputs of call and bypass and the batches of
\* call_many_parallel.
CacheFunctions == {"cycle", "stay"}

CacheInputs == 0..2

CacheBatches ==
    {<<>>} \cup {<<x>> : x \in CacheInputs}
           \cup {<<x, y>> : x \in CacheInputs, y \in CacheInputs}

CacheInit ==
    /\ sim = New(0, "cycle")
    /\ clone = NoClone
    /\ pc = "idle"
    /\ frame = NoFrame
    /\ ret = [op |-> "new", panic |-> "none"]
    /\ invocations = EmptyMap
    /\ ops = 0
    /\ pre = sim
    /\ traversed = [ever |-> FALSE, before |-> FALSE]
    /\ \E function \in CacheFunctions : cached_function = CachedFunctionNew(function)
    /\ cache = CacheNew
    /\ reachable_states = ReachableStatesNew
    /\ simulation = SimulationNew

\* A call of call(input); hit tells which branch of the if let was taken.
CachedCall ==
    /\ pc = "idle"
    /\ ops < MaxOps
    /\ \E input \in CacheInputs :
          \E r \in {Call(cached_function, input)} :
              /\ cached_function' = r.cf
              /\ invocations' = Count(invocations, r.invoked)
              /\ ret' = [op |-> "call", input |-> input, panic |-> "none",
                         value |-> r.output,
                         hit |-> input \in DOMAIN cached_function.cache]
    /\ ops' = ops + 1
    /\ UNCHANGED <<sim, clone, pc, frame, pre, traversed, cache, reachable_states, simulation>>

\* A call of bypass(input).
CachedBypass ==
    /\ pc = "idle"
    /\ ops < MaxOps
    /\ \E input \in CacheInputs :
          /\ invocations' = Count(invocations, <<input>>)
          /\ ret' = [op |-> "bypass", input |-> input, panic |-> "none",
                     value |-> Bypass(cached_function, input)]
    /\ ops' = ops + 1
    /\ UNCHANGED <<sim, clone, pc, frame, pre, traversed, cached_function, cache, reachable_states, simulation>>

\* A call of clear().
CachedClear ==
    /\ pc = "idle"
    /\ ops < MaxOps
    /\ cached_function' = Clear(cached_function)
    /\ ret' = [op |-> "clear", panic |-> "none"]
    /\ ops' = ops + 1
    /\ UNCHANGED <<sim, clone, pc, frame, invocations, pre, traversed, cache, reachable_states, simulation>>

\* Entry of call_many_parallel(inputs); evaluated holds the positions of
\* the inputs the parallel map has evaluated.
CallManyParallelEnter ==
    /\ pc = "idle"
    /\ ops < MaxOps
    /\ \E inputs \in CacheBatches :
          frame' = [op |-> "call_many_parallel", modify_cache_only |-> FALSE,
                    num_current_known_states |-> 0,
                    inputs |-> inputs, evaluated |-> {}]
    /\ pc' = "call_many_parallel"
    /\ ret' = [op |-> "none", panic |-> "none"]
    /\ ops' = ops + 1
    /\ UNCHANGED <<sim, clone, invocations, pre, traversed, cached_function, cache, reachable_states, simulation>>

\* call_many_parallel: a worker of the parallel map evaluates one input
\* that has not been evaluated; the workers take the inputs in any order.
CallManyParallelMap ==
    /\ pc = "call_many_parallel"
    /\ \E i \in (1..Len(CallManyParallel(cached_function, frame.inputs).invoked))
                    \ frame.evaluated :
          /\ invocations' =
                Count(invocations,
                      <<CallManyParallel(cached_function, frame.inputs).invoked[i]>>)
          /\ frame' = [frame EXCEPT !.evaluated = @ \cup {i}]
    /\ UNCHANGED <<sim, clone, pc, ret, ops, pre, traversed, cached_function, cache, reachable_states, simulation>>

\* call_many_parallel after the parallel map has collected every pair: the
\* pairs are inserted into the cache and the outputs are returned.  cached
\* is the set of inputs the cache held when the call was made.
CallManyParallelInsert ==
    /\ pc = "call_many_parallel"
    /\ frame.evaluated =
          1..Len(CallManyParallel(cached_function, frame.inputs).invoked)
    /\ cached_function' = CallManyParallel(cached_function, frame.inputs).cf
    /\ ret' = [op |-> "call_many_parallel", inputs |-> frame.inputs,
               panic |-> "none",
               value |-> CallManyParallel(cached_function, frame.inputs).outputs,
               cached |-> Range(frame.inputs) \cap DOMAIN cached_function.cache]
    /\ pc' = "idle"
    /\ frame' = NoFrame
    /\ UNCHANGED <<sim, clone, invocations, ops, pre, traversed, cache, reachable_states, simulation>>

CacheNext ==
    \/ CachedCall
    \/ CachedBypass
    \/ CachedClear
    \/ CallManyParallelEnter
    \/ CallManyParallelMap
    \/ CallManyParallelInsert

\* A CachedFunction called by its user.
CacheSpec == CacheInit /\ [][CacheNext]_vars

\* The step is a call of op.
Called(op) == ops' = ops + 1 /\ ret'.op = op

\* The user function of the CachedFunction.
Function(input) == Generator(cached_function.function, input)

\* C27: call(x) invokes the function only when x is not cached, then once,
\* and stores the result; otherwise it returns the stored value without an
\* invocation.  bypass(x) invokes the function once and leaves the cache
\* alone, and clear empties the cache.
C27_CallMemoizes ==
    [][/\ Called("call") =>
             IF ret'.input \in DOMAIN cached_function.cache
             THEN /\ invocations' = invocations
                  /\ cached_function' = cached_function
                  /\ ret'.value = cached_function.cache[ret'.input]
             ELSE /\ invocations' = Count(invocations, <<ret'.input>>)
                  /\ ret'.value = Function(ret'.input)
                  /\ cached_function'.cache =
                        Insert(cached_function.cache, ret'.input, ret'.value)
       /\ Called("bypass") =>
             /\ invocations' = Count(invocations, <<ret'.input>>)
             /\ ret'.value = Function(ret'.input)
             /\ cached_function' = cached_function
       /\ Called("clear") =>
             /\ cached_function'.cache = EmptyMap
             /\ invocations' = invocations
       /\ cached_function'.function = cached_function.function]_vars

\* A call of call(x) answered from the cache: the function has been
\* invoked on x once, by the call that stored the value.
C27_Witness ==
    /\ ret.op = "call"
    /\ ret.hit
    /\ ops >= 2
    /\ invocations[ret.input] = 1
    /\ ret.value = cached_function.cache[ret.input]

EntityRule(description, condition, probability_weight, action) ==
    [description |-> description, condition |-> condition,
     weight |-> probability_weight, action |-> action]

\* The entity names, the entity rules and the entity values of the inputs of
\* combine_entity_rules; a state maps entity names to entity values.
EntityNames == {"", "a", "b"}

EntityRuleChoices ==
    { EntityRule("grow", "always", Half, "increment"),
      EntityRule("feed", "positive", Quarter, "total"),
      EntityRule("sure", "always", One, "increment"),
      EntityRule("never", "always", Zero, "total") }

EntityRuleSets == UNION {[names -> EntityRuleChoices] : names \in SUBSET EntityNames}

EntityValues == {0, 1}

EntityStates(names) == [names -> EntityValues]

\* The orders in which a HashMap with the keys names is iterated.
EntityOrders(names) ==
    {order \in [1..Cardinality(names) -> names] :
        \A i, j \in 1..Cardinality(names) : order[i] = order[j] => i = j}

\* The sum of the entity values of state.
RECURSIVE Total(_)
Total(state) ==
    IF DOMAIN state = {} THEN 0
    ELSE LET e == CHOOSE x \in DOMAIN state : TRUE
         IN  state[e] + Total([x \in DOMAIN state \ {e} |-> state[x]])

\* The condition closure of an entity rule: |_| true, and a closure that
\* reads the whole state.
EntityApplies(entity_rule, state) ==
    CASE entity_rule.condition = "always"   -> TRUE
      [] entity_rule.condition = "positive" -> Total(state) > 0

\* The action closure of the entity rule of entity_name: its entity
\* incremented, and a value computed from every entity of the state.
EntityApply(entity_rule, entity_name, state) ==
    CASE entity_rule.action = "increment" -> state[entity_name] + 1
      [] entity_rule.action = "total"     -> Total(state)

\* State::insert_entity
InsertEntity(state, entity_name, entity) == Insert(state, entity_name, entity)

\* Itertools::join of the strings of names with the separator sep.
RECURSIVE Join(_, _)
Join(names, sep) ==
    IF names = <<>> THEN ""
    ELSE IF Len(names) = 1 THEN names[1]
    ELSE names[1] \o sep \o Join(Tail(names), sep)

\* Itertools::powerset over the entries in the order order: every subset,
\* as the vector of its members in that order.
Powerset(order) ==
    {SelectSeq(order, LAMBDA name : name \in members) : members \in SUBSET Range(order)}

\* combine_entity_rules: weight, the product over all entity rules of the
\* weight of a rule of entity_rules_set and of 1 - weight of any other rule.
RECURSIVE JointWeight(_, _, _)
JointWeight(entity_rules, order, entity_rules_set) ==
    IF order = <<>> THEN One
    ELSE PMul(IF Head(order) \in Range(entity_rules_set)
              THEN entity_rules[Head(order)].weight
              ELSE NothingFactor(entity_rules[Head(order)].weight),
              JointWeight(entity_rules, Tail(order), entity_rules_set))

\* combine_entity_rules: the (rule_name, rule) pair built for the set
\* entity_rules_set; condition and action hold the vectors condition_rules
\* and action_rules their closures capture.
JointRule(entity_rules, order, entity_rules_set) ==
    <<Join(entity_rules_set, ", "),
      Rule(Join([i \in 1..Len(entity_rules_set) |->
                    entity_rules[entity_rules_set[i]].description], ",\n\n"),
           entity_rules_set,
           JointWeight(entity_rules, order, entity_rules_set),
           entity_rules_set)>>

\* combine_entity_rules: the pairs that pass both filters (every member has
\* a weight above 0, the joint weight is above 0).
JointRules(entity_rules, order) ==
    {JointRule(entity_rules, order, entity_rules_set) :
        entity_rules_set \in
            {set \in Powerset(order) :
                /\ \A i \in 1..Len(set) : entity_rules[set[i]].weight[1] > 0
                /\ JointWeight(entity_rules, order, set)[1] > 0}}

\* collect::<HashMap<RuleName, Rule>> of pairs that arrive from the
\* parallel bridge in any order: of the pairs with the same rule name the
\* one inserted last is kept, so the map holds one pair for every name.
Collect(pairs) ==
    {[rule_name \in {pair[1] : pair \in kept} |->
         (CHOOSE pair \in kept : pair[1] = rule_name)[2]] :
        kept \in {k \in SUBSET pairs :
                    /\ \A pair \in pairs : \E other \in k : other[1] = pair[1]
                    /\ \A pair, other \in k : pair[1] = other[1] => pair = other}}

\* combine_entity_rules: the maps it can return.
CombineEntityRulesOn(entity_rules, order) == Collect(JointRules(entity_rules, order))

\* The condition closure of a joint rule: every rule of condition_rules
\* applies to the state.
JointApplies(rule, entity_rules, state) ==
    \A i \in 1..Len(rule.condition) :
        EntityApplies(entity_rules[rule.condition[i]], state)

\* The action closure of a joint rule: for every rule of action_rules, in
\* their order, the entity the rule computes from state is inserted into
\* new_state.
RECURSIVE JointApplyFrom(_, _, _, _)
JointApplyFrom(action_rules, entity_rules, state, new_state) ==
    IF action_rules = <<>> THEN new_state
    ELSE JointApplyFrom(Tail(action_rules), entity_rules, state,
            InsertEntity(new_state, Head(action_rules),
                EntityApply(entity_rules[Head(action_rules)], Head(action_rules), state)))

JointApply(rule, entity_rules, state) ==
    JointApplyFrom(rule.action, entity_rules, state, state)

EntityInit ==
    /\ sim = New(0, "cycle")
    /\ clone = NoClone
    /\ pc = "idle"
    /\ frame = NoFrame
    /\ ret = [op |-> "new", panic |-> "none"]
    /\ invocations = EmptyMap
    /\ ops = 0
    /\ pre = sim
    /\ traversed = [ever |-> FALSE, before |-> FALSE]
    /\ cached_function = CachedFunctionNew("cycle")
    /\ cache = CacheNew
    /\ reachable_states = ReachableStatesNew
    /\ simulation = SimulationNew

\* A call of combine_entity_rules(entity_rules).
CombineEntityRules ==
    /\ ret.op = "new"
    /\ \E entity_rules \in EntityRuleSets :
       \E order \in EntityOrders(DOMAIN entity_rules) :
       \E rules \in CombineEntityRulesOn(entity_rules, order) :
          ret' = [op |-> "combine_entity_rules", panic |-> "none",
                  entity_rules |-> entity_rules, order |-> order, value |-> rules]
    /\ UNCHANGED <<sim, clone, pc, frame, invocations, ops, pre, traversed, cached_function, cache, reachable_states, simulation>>

\* The condition and the action of one of the returned rules are called on
\* a state.
JointRuleCalled ==
    /\ ret.op = "combine_entity_rules"
    /\ \E rule_name \in DOMAIN ret.value :
       \E state \in EntityStates(DOMAIN ret.entity_rules) :
          ret' = [op |-> "rule", panic |-> "none",
                  entity_rules |-> ret.entity_rules, order |-> ret.order,
                  value |-> ret.value, rule_name |-> rule_name, state |-> state,
                  applies |-> JointApplies(ret.value[rule_name], ret.entity_rules, state),
                  new_state |-> JointApply(ret.value[rule_name], ret.entity_rules, state)]
    /\ UNCHANGED <<sim, clone, pc, frame, invocations, ops, pre, traversed, cached_function, cache, reachable_states, simulation>>

EntityNext == CombineEntityRules \/ JointRuleCalled

\* combine_entity_rules called and its rules used.
EntitySpec == EntityInit /\ [][EntityNext]_vars

\* The joint weight of the subset members of the entity rules: the product
\* of w over the members and of 1 - w over the other rules.
RECURSIVE SubsetWeight(_, _, _)
SubsetWeight(entity_rules, members, names) ==
    IF names = {} THEN One
    ELSE LET name == CHOOSE x \in names : TRUE
         IN  PMul(IF name \in members
                  THEN entity_rules[name].weight
                  ELSE PAdd(One, <<-entity_rules[name].weight[1],
                                  entity_rules[name].weight[2]>>),
                  SubsetWeight(entity_rules, members, names \ {name}))

\* The subsets of the entity rules with a joint weight other than zero.
WeightedSubsets(entity_rules) ==
    {members \in SUBSET DOMAIN entity_rules :
        SubsetWeight(entity_rules, members, DOMAIN entity_rules) # Zero}

\* Every weight lies strictly between 0 and 1.
StrictlyBetween(entity_rules) ==
    \A name \in DOMAIN entity_rules :
        /\ entity_rules[name].weight[1] > 0
        /\ entity_rules[name].weight[1] < entity_rules[name].weight[2]

\* combine_entity_rules has returned.
Combined == ret.op \in {"combine_entity_rules", "rule"}

\* The returned map holds one rule for every subset of nonzero joint weight,
\* with the subset as members and the joint weight as weight, and no other.
OnePerSubset(entity_rules, rules) ==
    /\ Cardinality(DOMAIN rules) = Cardinality(WeightedSubsets(entity_rules))
    /\ \A members \in WeightedSubsets(entity_rules) :
          \E rule_name \in DOMAIN rules :
              /\ Range(rules[rule_name].condition) = members
              /\ Range(rules[rule_name].action) = members
              /\ rules[rule_name].weight =
                    SubsetWeight(entity_rules, members, DOMAIN entity_rules)
    /\ StrictlyBetween(entity_rules) =>
          Cardinality(DOMAIN rules) = 2 ^ Cardinality(DOMAIN entity_rules)

\* The condition of the called rule is the conjunction of the conditions of
\* its members, and its action replaces the entities of the members, and no
\* other, by what their rules compute from the state it is called on.
ActsOnMembers(entity_rules, rule) ==
    /\ ret.applies =
          (\A name \in Range(rule.condition) : EntityApplies(entity_rules[name], ret.state))
    /\ ret.new_state =
          [name \in DOMAIN ret.state |->
              IF name \in Range(rule.action)
              THEN EntityApply(entity_rules[name], name, ret.state)
              ELSE ret.state[name]]

\* C29: combine_entity_rules returns exactly one joint rule for every subset
\* of the entity rules whose joint weight is not zero, with that weight, the
\* conjunction of the members' conditions and an action that replaces the
\* members' entities by the values computed from the original state; rules
\* with weights strictly between 0 and 1 give 2^n joint rules.
C29_OneJointRulePerSubset ==
    /\ Combined => OnePerSubset(ret.entity_rules, ret.value)
    /\ ret.op = "rule" => ActsOnMembers(ret.entity_rules, ret.value[ret.rule_name])

\* ------------------------------------------------------------ f64 arithmetic

\* The number of bits of the significand of an f64 (Probability = f64).
SignificandBits == 53

\* A non-negative real number with a finite binary expansion is held as the
\* set of the exponents of its bits: 0.75 is {-1, -2}, 0.0 is {}.
Min(S) == CHOOSE x \in S : \A y \in S : x <= y

\* Binary addition: the carry into the place e comes from a lower place
\* where both numbers have a bit, through places where either has one.
Carry(a, b, e) ==
    \E j \in a \cap b : j < e /\ \A k \in (j + 1)..(e - 1) : k \in a \cup b

\* The sum of two such numbers.
AddBits(a, b) ==
    IF a = {} THEN b
    ELSE IF b = {} THEN a
    ELSE {e \in Min(a \cup b)..(Max(a \cup b) + 1) :
             ((e \in a) # (e \in b)) # Carry(a, b, e)}

\* The product of two such numbers, the sum of the shifted copies of a.
RECURSIVE MulBits(_, _)
MulBits(a, b) ==
    IF b = {} THEN {}
    ELSE LET e == CHOOSE x \in b : TRUE
         IN  AddBits({x + e : x \in a}, MulBits(a, b \ {e}))

\* IEEE 754 rounding of x to the nearest f64, ties to even: the leading
\* SignificandBits bits are kept and the last kept place is incremented when
\* the rest is above half of it, or is half of it and the place is odd.
F64Round(x) ==
    IF x = {} THEN {}
    ELSE IF /\ (Max(x) - SignificandBits) \in x
            /\ \/ \E e \in x : e < Max(x) - SignificandBits
               \/ (Max(x) - SignificandBits + 1) \in x
         THEN AddBits({e \in x : e > Max(x) - SignificandBits},
                      {Max(x) - SignificandBits + 1})
         ELSE {e \in x : e > Max(x) - SignificandBits}

\* The bits of (r / d) * 2^(e + 1) for r < d, at the places e, e - 1, ...,
\* four places at a time for k times; a remainder is recorded as one more
\* bit below them.
RECURSIVE Expansion(_, _, _, _)
Expansion(r, d, e, k) ==
    IF r = 0 THEN {}
    ELSE IF k = 0 THEN {e}
    ELSE {e - j : j \in {i \in 0..3 : ((16 * r) \div d) \div (2 ^ (3 - i)) % 2 = 1}}
            \cup Expansion((16 * r) % d, d, e - 4, k - 1)

\* The f64 of the literal of the probability p (0.1, 0.25, 1.0): the f64
\* nearest to p.  The literals of the model are 1 or at least 1/16, so that
\* SignificandBits + 7 places hold more bits than the significand.
F64Of(p) ==
    IF p[1] = p[2] THEN {0}
    ELSE F64Round(Expansion(p[1], p[2], -1, (SignificandBits + 7) \div 4))

\* f64 addition and multiplication: the exact result, rounded.
F64Add(x, y) == F64Round(AddBits(x, y))

F64Mul(x, y) == F64Round(MulBits(x, y))

\* next_step, the fold in f64: entry(h).and_modify(|p| *p += c).or_insert(c)
\* with c = current_state_probability * probability.
F64Accumulate(dist, h, current_state_probability, probability) ==
    IF h \in DOMAIN dist
    THEN [dist EXCEPT ![h] = F64Add(@, F64Mul(current_state_probability, probability))]
    ELSE Insert(dist, h, F64Mul(current_state_probability, probability))

RECURSIVE F64FoldRow(_, _, _)
F64FoldRow(dist, next_states, current_state_probability) ==
    IF next_states = <<>> THEN dist
    ELSE F64FoldRow(F64Accumulate(dist, Hash(Head(next_states)[1]),
                                  current_state_probability,
                                  F64Of(Head(next_states)[3])),
                    Tail(next_states), current_state_probability)

\* The distribution next_step inserts when the workers of the parallel fold
\* take the mutex source by source in the order order; probabilities is the
\* current distribution.
RECURSIVE F64FoldRows(_, _, _, _)
F64FoldRows(dist, state_transition_generator, probabilities, order) ==
    IF order = <<>> THEN dist
    ELSE F64FoldRows(F64FoldRow(dist, Generator(state_transition_generator, Head(order)),
                                F64Of(probabilities[Head(order)])),
                     state_transition_generator, probabilities, Tail(order))

\* The distributions and the generators of the engines stepped in f64: the
\* distributions over the states 0, 1, 2 with probabilities in tenths, and
\* one in quarters.
Tenths == {<<1, 10>>, <<1, 5>>, <<3, 10>>, <<2, 5>>, <<1, 2>>, <<3, 5>>, <<7, 10>>, <<4, 5>>}

F64Distributions ==
    {d \in [0..2 -> Tenths] : PAdd(d[0], PAdd(d[1], d[2])) = One}
        \cup {(0 :> Quarter @@ 1 :> Quarter @@ 2 :> Half)}

F64GeneratorIds == {"stay", "cycle"}

\* The orders in which the workers can take the sources sources.
F64StepOrders(sources) ==
    {order \in [1..Cardinality(sources) -> sources] :
        \A i, j \in 1..Cardinality(sources) : order[i] = order[j] => i = j}

F64Init ==
    /\ sim = New(0, "cycle")
    /\ clone = NoClone
    /\ pc = "idle"
    /\ frame = NoFrame
    /\ ret = [op |-> "none", panic |-> "none"]
    /\ invocations = EmptyMap
    /\ ops = 0
    /\ pre = sim
    /\ traversed = [ever |-> FALSE, before |-> FALSE]
    /\ cached_function = CachedFunctionNew("cycle")
    /\ cache = CacheNew
    /\ reachable_states = ReachableStatesNew
    /\ simulation = SimulationNew

\* Two engines are constructed by new_with_distribution from the same
\* distribution and the same generator.
F64NewWithDistribution ==
    /\ ret.op = "none"
    /\ \E probabilities \in F64Distributions :
       \E state_transition_generator \in F64GeneratorIds :
          ret' = [op |-> "new_with_distribution", panic |-> "none",
                  probabilities |-> probabilities,
                  state_transition_generator |-> state_transition_generator]
    /\ UNCHANGED <<sim, clone, pc, frame, invocations, ops, pre, traversed, cached_function, cache, reachable_states, simulation>>

\* next_step is called on the first engine; first is the distribution D[1]
\* it holds afterwards.
F64NextStep ==
    /\ ret.op = "new_with_distribution"
    /\ \E order \in F64StepOrders(DOMAIN ret.probabilities) :
          ret' = [op |-> "next_step", panic |-> "none",
                  probabilities |-> ret.probabilities,
                  state_transition_generator |-> ret.state_transition_generator,
                  first |-> F64FoldRows(EmptyMap, ret.state_transition_generator,
                                        ret.probabilities, order)]
    /\ UNCHANGED <<sim, clone, pc, frame, invocations, ops, pre, traversed, cached_function, cache, reachable_states, simulation>>

\* next_step is called on the second engine; second is its D[1].
F64NextStepOther ==
    /\ ret.op = "next_step"
    /\ \E order \in F64StepOrders(DOMAIN ret.probabilities) :
          ret' = [op |-> "next_steps", panic |-> "none",
                  probabilities |-> ret.probabilities,
                  state_transition_generator |-> ret.state_transition_generator,
                  first |-> ret.first,
                  second |-> F64FoldRows(EmptyMap, ret.state_transition_generator,
                                         ret.probabilities, order)]
    /\ UNCHANGED <<sim, clone, pc, frame, invocations, ops, pre, traversed, cached_function, cache, reachable_states, simulation>>

F64Next == F64NewWithDistribution \/ F64NextStep \/ F64NextStepOther

\* Two engines stepped in f64.
F64Spec == F64Init /\ [][F64Next]_vars

Unnormalized(s) == PSumMap(s.probability_distributions[0]) # One

\* C31: an engine constructed from a distribution whose probabilities do not
\* sum to 1 is rejected: no distribution D[1] is ever recorded for it.
C31_UnnormalizedIsRejected ==
    Unnormalized(sim) => 1 \notin DOMAIN sim.probability_distributions

\* ------------------------------------------------------------- Cache in use

\* The rule names, the state hashes, the base state hashes passed to the add
\* methods and the caches passed to merge.
RuleNames == {"a", "b"}

RuleNameOrders == {<<"a", "b">>, <<"b", "a">>}

StateHashes == {Hash(0), Hash(1)}

BaseStateHashes == {Hash(0)}

MergeArguments ==
    { CacheNew,
      [rules |-> ("b" :> RuleCacheNew)],
      [rules |-> ("a" :> [condition |-> (Hash(0) :> TRUE),
                          actions   |-> (Hash(0) :> Hash(1))])],
      [rules |-> ("a" :> [condition |-> (Hash(0) :> FALSE @@ Hash(1) :> TRUE),
                          actions   |-> EmptyMap]
               @@ "b" :> [condition |-> (Hash(1) :> TRUE),
                          actions   |-> (Hash(0) :> Hash(0) @@ Hash(1) :> Hash(0))])] }

\* The cache after Cache::new.
RuleCacheInit ==
    /\ sim = New(0, "cycle")
    /\ clone = NoClone
    /\ pc = "idle"
    /\ frame = NoFrame
    /\ ret = [op |-> "new", panic |-> "none"]
    /\ invocations = EmptyMap
    /\ ops = 0
    /\ pre = sim
    /\ traversed = [ever |-> FALSE, before |-> FALSE]
    /\ cached_function = CachedFunctionNew("cycle")
    /\ cache = CacheNew
    /\ reachable_states = ReachableStatesNew
    /\ simulation = SimulationNew

\* A call of Cache::add_condition.
AddCondition ==
    /\ \E rule_name \in RuleNames, base_state_hash \in BaseStateHashes, applies \in BOOLEAN :
          \E r \in {CacheAddCondition(cache, rule_name, base_state_hash, applies)} :
              /\ cache' = r.cache
              /\ ret' = [op |-> "add_condition", panic |-> "none",
                         update |-> ConditionCacheUpdate(rule_name, base_state_hash, applies),
                         result |-> r.result]
    /\ UNCHANGED <<sim, clone, pc, frame, invocations, ops, pre, traversed, cached_function, reachable_states, simulation>>

\* A call of Cache::add_action.
AddAction ==
    /\ \E rule_name \in RuleNames, base_state_hash \in BaseStateHashes,
          new_state_hash \in StateHashes :
          \E r \in {CacheAddAction(cache, rule_name, base_state_hash, new_state_hash)} :
              /\ cache' = r.cache
              /\ ret' = [op |-> "add_action", panic |-> "none",
                         update |-> ActionCacheUpdate(rule_name, base_state_hash,
                                                      new_state_hash),
                         result |-> r.result]
    /\ UNCHANGED <<sim, clone, pc, frame, invocations, ops, pre, traversed, cached_function, reachable_states, simulation>>

\* A call of Cache::apply_condition_update.
ApplyConditionUpdateCall ==
    /\ \E rule_name \in RuleNames, base_state_hash \in BaseStateHashes, applies \in BOOLEAN :
          \E update \in {ConditionCacheUpdate(rule_name, base_state_hash, applies)} :
              /\ cache' = ApplyConditionUpdate(cache, update).cache
              /\ ret' = [op |-> "apply_condition_update", panic |-> "none",
                         update |-> update,
                         result |-> ApplyConditionUpdate(cache, update).result]
    /\ UNCHANGED <<sim, clone, pc, frame, invocations, ops, pre, traversed, cached_function, reachable_states, simulation>>

\* A call of Cache::apply_action_update.
ApplyActionUpdateCall ==
    /\ \E rule_name \in RuleNames, base_state_hash \in BaseStateHashes,
          new_state_hash \in StateHashes :
          \E update \in {ActionCacheUpdate(rule_name, base_state_hash, new_state_hash)} :
              /\ cache' = ApplyActionUpdate(cache, update).cache
              /\ ret' = [op |-> "apply_action_update", panic |-> "none",
                         update |-> update,
                         result |-> ApplyActionUpdate(cache, update).result]
    /\ UNCHANGED <<sim, clone, pc, frame, invocations, ops, pre, traversed, cached_function, reachable_states, simulation>>

\* A call of Cache::merge; the rules of the other cache and the hashes of
\* its maps are iterated in one of two orders each.
MergeCall ==
    /\ \E other \in MergeArguments, rule_names \in RuleNameOrders,
          hashes \in HashOrders(StateHashes) :
          \E r \in {CacheMerge(cache, other,
                        SelectSeq(rule_names, LAMBDA name : name \in DOMAIN other.rules),
                        hashes)} :
              /\ cache' = r.cache
              /\ ret' = [op |-> "merge", panic |-> "none", other |-> other,
                         result |-> r.result]
    /\ UNCHANGED <<sim, clone, pc, frame, invocations, ops, pre, traversed, cached_function, reachable_states, simulation>>

RuleCacheNext ==
    \/ AddCondition
    \/ AddAction
    \/ ApplyConditionUpdateCall
    \/ ApplyActionUpdateCall
    \/ MergeCall

\* A Cache used through its public methods.
RuleCacheSpec == RuleCacheInit /\ [][RuleCacheNext]_vars

\* The value stored in c for the key of the update, as a set of at most one
\* element.
Stored(c, update) ==
    IF update.rule_name \notin DOMAIN c.rules THEN {}
    ELSE IF update.kind = "condition"
    THEN {c.rules[update.rule_name].condition[h] :
             h \in {update.base_state_hash} \cap DOMAIN c.rules[update.rule_name].condition}
    ELSE {c.rules[update.rule_name].actions[h] :
             h \in {update.base_state_hash} \cap DOMAIN c.rules[update.rule_name].actions}

\* Every rule entry and every condition and action value of c is in d.
ValuesKept(c, d) ==
    \A rule_name \in DOMAIN c.rules :
        /\ rule_name \in DOMAIN d.rules
        /\ \A h \in DOMAIN c.rules[rule_name].condition :
              /\ h \in DOMAIN d.rules[rule_name].condition
              /\ d.rules[rule_name].condition[h] = c.rules[rule_name].condition[h]
        /\ \A h \in DOMAIN c.rules[rule_name].actions :
              /\ h \in DOMAIN d.rules[rule_name].actions
              /\ d.rules[rule_name].actions[h] = c.rules[rule_name].actions[h]

\* d is c with the value of the update stored under its key and nothing
\* else added.
OnlyAdded(c, d, update) ==
    /\ ValuesKept(c, d)
    /\ Stored(d, update) = {update.stored}
    /\ DOMAIN d.rules = DOMAIN c.rules \cup {update.rule_name}
    /\ \A other \in
          [kind : {"condition", "action"}, rule_name : RuleNames,
           base_state_hash : StateHashes, stored : {update.stored}] :
          (other.kind # update.kind \/ other.rule_name # update.rule_name
             \/ other.base_state_hash # update.base_state_hash)
          => (Stored(d, other) = {}) = (Stored(c, other) = {})

Added == ret'.op \in {"add_condition", "add_action",
                      "apply_condition_update", "apply_action_update"}

\* C32: no step of add_condition, add_action, apply_condition_update,
\* apply_action_update or merge removes a rule entry or changes a stored
\* condition or action; adding the value a key already holds returns Ok and
\* changes nothing, adding a different value returns an error and changes
\* nothing, and adding a value for a new key returns Ok, stores exactly that
\* value and creates the rule entry where the rule name was unknown.
C32_CacheIsWriteOnce ==
    [][/\ ValuesKept(cache, cache')
       /\ Added =>
             /\ Stored(cache, ret'.update) = {ret'.update.stored}
                   => (ret'.result = "Ok" /\ cache' = cache)
             /\ Stored(cache, ret'.update) \notin {{}, {ret'.update.stored}}
                   => (ret'.result = "InternalError" /\ cache' = cache)
             /\ Stored(cache, ret'.update) = {}
                   => (ret'.result = "Ok" /\ OnlyAdded(cache, cache', ret'.update))]_vars

\* An add has been refused on a cache that holds both rules, and the rule b
\* holds a condition and an action.
C32_Witness ==
    /\ ret.op \in {"add_condition", "add_action"}
    /\ ret.result = "InternalError"
    /\ DOMAIN cache.rules = RuleNames
    /\ DOMAIN cache.rules["b"].condition # {}
    /\ DOMAIN cache.rules["b"].actions # {}

\* --------------------------------------------------- ReachableStates in use

\* The probabilities appended and the maps passed to merge.
Probabilities == {Zero, Quarter, Half, ThreeQuarters, One}

MergedStates ==
    { (Hash(0) :> Half),
      (Hash(0) :> Quarter @@ Hash(1) :> Quarter),
      (Hash(0) :> Half @@ Hash(1) :> ThreeQuarters) }

\* The map after ReachableStates::new.
ReachableStatesInit ==
    /\ sim = New(0, "cycle")
    /\ clone = NoClone
    /\ pc = "idle"
    /\ frame = NoFrame
    /\ ret = [op |-> "new", panic |-> "none"]
    /\ invocations = EmptyMap
    /\ ops = 0
    /\ pre = sim
    /\ traversed = [ever |-> FALSE, before |-> FALSE]
    /\ cached_function = CachedFunctionNew("cycle")
    /\ cache = CacheNew
    /\ reachable_states = ReachableStatesNew
    /\ simulation = SimulationNew

\* A call of ReachableStates::append_state.
AppendStateCall ==
    /\ \E state_hash \in StateHashes, state_probability \in Probabilities :
          \E r \in {AppendState(reachable_states, state_hash, state_probability)} :
              /\ reachable_states' = r.reachable_states
              /\ ret' = [op |-> "append_state", panic |-> "none",
                         state_hash |-> state_hash,
                         state_probability |-> state_probability,
                         result |-> r.result]
    /\ UNCHANGED <<sim, clone, pc, frame, invocations, ops, pre, traversed, cached_function, cache, simulation>>

\* A call of ReachableStates::merge.
ReachableStatesMergeCall ==
    /\ \E states \in MergedStates : \E order \in HashOrders(DOMAIN states) :
          \E r \in {ReachableStatesMerge(reachable_states, states, order)} :
              /\ reachable_states' = r.reachable_states
              /\ ret' = [op |-> "merge", panic |-> "none", states |-> states,
                         result |-> r.result]
    /\ UNCHANGED <<sim, clone, pc, frame, invocations, ops, pre, traversed, cached_function, cache, simulation>>

ReachableStatesNext == AppendStateCall \/ ReachableStatesMergeCall

\* A ReachableStates used through append_state and merge.
ReachableStatesSpec == ReachableStatesInit /\ [][ReachableStatesNext]_vars

\* The step is an append_state of probability to state_hash that found the
\* stored probability (a set of at most one element) and behaved as claimed.
Accumulated(state_hash, probability, stored) ==
    /\ stored = {}
          => /\ ret'.result = "Ok"
             /\ reachable_states' = Insert(reachable_states, state_hash, probability)
    /\ \A p \in stored :
          IF PLeq(PAdd(p, probability), One)
          THEN /\ ret'.result = "Ok"
               /\ reachable_states' =
                     Insert(reachable_states, state_hash, PAdd(p, probability))
          ELSE /\ ret'.result = "ProbabilityOutOfRange"
               /\ reachable_states' = reachable_states

\* C33: the first append_state of a state stores its probability, a later
\* one adds to the stored probability, and one that would raise the stored
\* probability above 1 returns an error and leaves the map as it was; after
\* every append_state and every merge no entry exceeds 1.
C33_AppendAccumulates ==
    [][/\ ret'.op = "append_state"
          => Accumulated(ret'.state_hash, ret'.state_probability,
                 {reachable_states[h] :
                     h \in {ret'.state_hash} \cap DOMAIN reachable_states})
       /\ \A h \in DOMAIN reachable_states' : PLeq(reachable_states'[h], One)]_vars

\* An append_state has been refused on a map that holds two states.
C33_Witness ==
    /\ ret.op = "append_state"
    /\ ret.result = "ProbabilityOutOfRange"
    /\ DOMAIN reachable_states = StateHashes
    /\ ret.state_probability # One

\* ------------------------------------------- rule-based Simulation in use

\* The rules passed to Simulation::create, with the closures of Applies and
\* Apply on the circle of NumStates positions.
SimulationRuleSets ==
    { ("grow"  :> Rule("grow", "always", Half, "next")),
      ("move"  :> Rule("move", "always", One, "next")),
      ("idle"  :> Rule("idle", "always", Zero, "next")),
      ("wait"  :> Rule("wait", "always", Half, "stay")),
      ("back"  :> Rule("back", "nonzero", One, "backward")),
      ("grow"  :> Rule("grow", "always", Half, "next")
         @@ "reset" :> Rule("reset", "nonzero", Quarter, "return")),
      ("fast"  :> Rule("fast", "always", Half, "next")
         @@ "slow" :> Rule("slow", "always", Quarter, "next")) }

\* The simulation after Simulation::create.
SimulationInit ==
    /\ sim = New(0, "cycle")
    /\ clone = NoClone
    /\ pc = "idle"
    /\ frame = NoFrame
    /\ ret = [op |-> "create", panic |-> "none"]
    /\ invocations = EmptyMap
    /\ ops = 0
    /\ pre = sim
    /\ traversed = [ever |-> FALSE, before |-> FALSE]
    /\ cached_function = CachedFunctionNew("cycle")
    /\ cache = CacheNew
    /\ reachable_states = ReachableStatesNew
    /\ \E initial_state \in QueryStates, rules \in SimulationRuleSets :
          simulation = SimulationCreate(initial_state, rules)

\* A call of Simulation::next_step (lib.rs); rule_order is the order in
\* which the HashMap rules is iterated.
SimulationNextStep ==
    /\ pc = "idle"
    /\ ops < MaxOps
    /\ \E rule_order \in EntityOrders(DOMAIN simulation.rules) :
          \E r \in {SimulationNextStepOn(simulation, rule_order)} :
              /\ simulation' = r.simulation
              /\ pc' = IF r.panic = "none" THEN "idle" ELSE "panicked"
              /\ ret' = [op |-> "next_step", panic |-> r.panic,
                         rule_order |-> rule_order]
    /\ ops' = ops + 1
    /\ UNCHANGED <<sim, clone, frame, invocations, pre, traversed, cached_function, cache, reachable_states>>

\* A rule-based Simulation stepped by next_step.
SimulationSpec == SimulationInit /\ [][SimulationNextStep]_vars

\* C34: a next_step of the rule-based simulation distributes the
\* probability of every base state completely (what stays on the base state
\* plus what its applying rules receive is the probability of the base
\* state), the probabilities of the reachable states sum to 1 after the step
\* and the check of the probability sum does not panic.
C34_StepDistributesCompletely ==
    [][SimulationNextStep =>
          /\ \A h \in DOMAIN simulation.reachable_states :
                PSumMap(GetReachableStatesFromBaseState(simulation, h,
                            simulation.reachable_states[h],
                            ret'.rule_order).new_reachable_states)
                   = simulation.reachable_states[h]
          /\ ret'.panic = "none"
          /\ PSumMap(simulation'.reachable_states) = One]_vars

\* -------------------------------------------------------------- edges of G

\* The (source, target) pairs of digests a next_step on the engine s emits.
EmittedPairs(s) ==
    UNION {{<<Hash(source), Hash(Successors(GeneratorOf(s), source)[j][1])>> :
               j \in 1..Len(Successors(GeneratorOf(s), source))} :
           source \in Support(s, Time(s))}

\* g holds at most one edge for an ordered pair of nodes.
EdgesAreKeyed(g) ==
    \A i, j \in 1..Len(g.edges) :
        (g.edges[i].source = g.edges[j].source /\ g.edges[i].target = g.edges[j].target)
        => i = j

\* C35: G never holds two edges with the same ordered (source, target) pair;
\* a next_step adds exactly the emitted pairs that G does not hold yet, so
\* that the number of edges is the number of distinct pairs emitted so far.
C35_EdgesAreKeyedByPair ==
    [][/\ EdgesAreKeyed(sim'.state_transition_graph)
       /\ Len(sim'.state_transition_graph.edges)
             = Cardinality(EdgePairs(sim'.state_transition_graph))
       /\ GraphWritten =>
             EdgePairs(sim'.state_transition_graph)
                = EdgePairs(sim.state_transition_graph)
                     \cup EmittedPairs(IF pc = "full_traversal" THEN Stepped ELSE sim)
       /\ ~GraphWritten =>
             EdgePairs(sim'.state_transition_graph) = EdgePairs(sim.state_transition_graph)]_vars

\* A next_step has returned that emitted a pair G already held.
C35_Witness ==
    /\ ret.op = "next_step"
    /\ ret.panic = "none"
    /\ EmittedPairs(pre) \cap EdgePairs(pre.state_transition_graph) # {}
    /\ Len(sim.state_transition_graph.edges) > Len(pre.state_transition_graph.edges)

\* ------------------------------------------- next_step, worker by worker

\* A faulty variant of CollectVec: the outputs in the order in which the
\* workers finished.
CollectInCompletionOrder(completed) ==
    [k \in 1..Len(completed) |-> completed[k][2]]

\* ParallelIterator::collect::<Vec<_>>() in call_many_parallel: completed
\* lists <<position of the input, output>> in the order in which the workers
\* finished; the vector holds the output of the i-th input at position i.
CollectVec(completed) ==
    [i \in 1..Len(completed) |->
        completed[CHOOSE k \in 1..Len(completed) : completed[k][1] = i][2]]

\* A faulty variant of Lockable: the entry is modified without the mutex.
LockableAlways(holding) == TRUE

\* Mutex::lock returns when no worker holds the guard.
Lockable(holding) == holding = {}

\* The engines stepped worker by worker.
ParallelGeneratorIds == {"cycle", "dup"}

ParallelInit ==
    /\ \E g \in ParallelGeneratorIds :
          \/ sim = New(0, g)
          \/ \E order \in Orders({0, 1}) :
                sim = NewWithDistribution((0 :> Half @@ 1 :> Half), order, g)
    /\ clone = NoClone
    /\ pc = "idle"
    /\ frame = NoFrame
    /\ ret = [op |-> "new", panic |-> "none"]
    /\ invocations = EmptyMap
    /\ ops = 0
    /\ pre = sim
    /\ traversed = [ever |-> FALSE, before |-> FALSE]
    /\ cached_function = CachedFunctionNew("cycle")
    /\ cache = CacheNew
    /\ reachable_states = ReachableStatesNew
    /\ simulation = SimulationNew

\* next_step is called: the current distribution is collected into the
\* vector state_probability_distribution, whose order is that of the HashMap.
ParallelEnter ==
    /\ pc = "idle"
    /\ ops < MaxOps
    /\ \E order \in StepOrders(sim) :
          frame' = [op |-> "next_step", modify_cache_only |-> FALSE,
                    num_current_known_states |-> 0,
                    state_probability_distribution |->
                        [i \in 1..Len(order) |->
                            <<order[i], ProbabilityDistribution(sim, Time(sim))[order[i]]>>],
                    completed |-> <<>>]
    /\ pc' = "map"
    /\ ret' = [op |-> "none", panic |-> "none"]
    /\ ops' = ops + 1
    /\ pre' = sim
    /\ UNCHANGED <<sim, clone, invocations, traversed, cached_function, cache, reachable_states, simulation>>

\* call_many_parallel, the parallel map: a worker finishes the evaluation of
\* the generator on an input; the workers finish in any order.
MapWorker ==
    /\ pc = "map"
    /\ \E i \in 1..Len(frame.state_probability_distribution) :
          /\ \A k \in 1..Len(frame.completed) : frame.completed[k][1] # i
          /\ frame' = [frame EXCEPT !.completed =
                          Append(@, <<i, Bypass(sim.state_transition_generator,
                                         frame.state_probability_distribution[i][1])>>)]
    /\ UNCHANGED <<sim, clone, pc, ret, invocations, ops, pre, traversed, cached_function, cache, reachable_states, simulation>>

\* call_many_parallel returns: the outputs are collected, the pairs are
\* inserted into the cache, and next_step asserts that every successor list
\* sums to 1 and creates the mutex around the empty map.
Collected ==
    /\ pc = "map"
    /\ Len(frame.completed) = Len(frame.state_probability_distribution)
    /\ \E outputs \in {CollectVec(frame.completed)} :
          /\ sim' = [sim EXCEPT !.state_transition_generator.cache =
                        InsertPairs(@, [i \in 1..Len(outputs) |->
                            <<frame.state_probability_distribution[i][1], outputs[i]>>])]
          /\ IF RowsAreStochastic(outputs)
             THEN /\ pc' = "fold"
                  /\ frame' = [op |-> "next_step", modify_cache_only |-> FALSE,
                               num_current_known_states |-> 0,
                               state_probability_distribution |->
                                   frame.state_probability_distribution,
                               reordered |->
                                   \E k \in 1..Len(frame.completed) :
                                       frame.completed[k][1] # k,
                               state_transition_probabilities |-> outputs,
                               position |-> [i \in 1..Len(outputs) |-> 0],
                               holding |-> {},
                               read |-> [i \in 1..Len(outputs) |-> <<>>],
                               map |-> EmptyMap]
                  /\ UNCHANGED ret
             ELSE /\ pc' = "panicked"
                  /\ frame' = NoFrame
                  /\ ret' = [op |-> "next_step", panic |-> "assert"]
    /\ UNCHANGED <<clone, invocations, ops, pre, traversed, cached_function, cache, reachable_states, simulation>>

\* The successor the worker of row i is at, and its contribution.
NewState(i) ==
    frame.state_transition_probabilities[i][frame.position[i] + 1]

\* The fold: the worker of row i takes the mutex and looks up the entry of
\* its next successor.
FoldLock ==
    /\ pc = "fold"
    /\ Lockable(frame.holding)
    /\ \E i \in 1..Len(frame.state_transition_probabilities) :
          /\ i \notin frame.holding
          /\ frame.position[i] < Len(frame.state_transition_probabilities[i])
          /\ frame' = [frame EXCEPT
                          !.holding = @ \cup {i},
                          !.read[i] = IF Hash(NewState(i)[1]) \in DOMAIN frame.map
                                      THEN <<frame.map[Hash(NewState(i)[1])]>>
                                      ELSE <<>>]
    /\ UNCHANGED <<sim, clone, pc, ret, invocations, ops, pre, traversed, cached_function, cache, reachable_states, simulation>>

\* The fold: the worker of row i adds its contribution to the entry it
\* looked up, or inserts it, and drops the guard at the end of the statement.
FoldWrite ==
    /\ pc = "fold"
    /\ \E i \in frame.holding :
          frame' = [frame EXCEPT
                       !.map = Insert(@, Hash(NewState(i)[1]),
                                  IF frame.read[i] = <<>>
                                  THEN Contribution(
                                           frame.state_probability_distribution[i][2],
                                           NewState(i)[3])
                                  ELSE PAdd(frame.read[i][1],
                                            Contribution(
                                                frame.state_probability_distribution[i][2],
                                                NewState(i)[3]))),
                       !.position[i] = @ + 1,
                       !.holding = @ \ {i},
                       !.read[i] = <<>>]
    /\ UNCHANGED <<sim, clone, pc, ret, invocations, ops, pre, traversed, cached_function, cache, reachable_states, simulation>>

\* Every worker is done: the map is taken out of the mutex and stored as the
\* new distribution, the registries and the graph are written sequentially
\* and next_step returns.
FoldFinish ==
    /\ pc = "fold"
    /\ frame.holding = {}
    /\ \A i \in 1..Len(frame.state_transition_probabilities) :
          frame.position[i] = Len(frame.state_transition_probabilities[i])
    /\ \E r \in {NextStepOn(sim, [i \in 1..Len(frame.state_probability_distribution) |->
                                     frame.state_probability_distribution[i][1]])} :
          /\ sim' = [r.sim EXCEPT !.probability_distributions =
                        Insert(sim.probability_distributions, Time(sim) + 1, frame.map)]
          /\ ret' = [op |-> "next_step", panic |-> r.panic, value |-> frame.map,
                     reordered |-> frame.reordered]
          /\ pc' = IF r.panic = "none" THEN "idle" ELSE "panicked"
    /\ frame' = NoFrame
    /\ UNCHANGED <<clone, invocations, ops, pre, traversed, cached_function, cache, reachable_states, simulation>>

ParallelNext ==
    \/ ParallelEnter
    \/ MapWorker
    \/ Collected
    \/ FoldLock
    \/ FoldWrite
    \/ FoldFinish

\* next_step with its parallel map and its parallel fold interleaved.
ParallelSpec == ParallelInit /\ [][ParallelNext]_vars

\* The entries <<row, position>> of rows whose successor has the digest h.
EntriesWith(rows, h) ==
    {e \in UNION {{<<i, j>> : j \in 1..Len(rows[i])} : i \in 1..Len(rows)} :
        Hash(rows[e[1]][e[2]][1]) = h}

\* The sum of p_i * q_ij over the entries.
RECURSIVE ContributionSum(_, _, _)
ContributionSum(entries, rows, distribution) ==
    IF entries = {} THEN Zero
    ELSE LET e == CHOOSE x \in entries : TRUE
         IN  PAdd(PMul(distribution[e[1]][2], rows[e[1]][e[2]][3]),
                  ContributionSum(entries \ {e}, rows, distribution))

\* The digests of the successors of rows.
Digests(rows) ==
    UNION {{Hash(rows[i][j][1]) : j \in 1..Len(rows[i])} : i \in 1..Len(rows)}

\* C36: when the parallel fold of next_step is finished, the map holds for
\* every successor digest the sum of all contributions p_i * q_ij to it,
\* each counted once, and no other entry, whatever the interleaving of the
\* workers was.
C36_FoldLosesNoUpdate ==
    [][(pc = "fold" /\ pc' # "fold") =>
          /\ DOMAIN frame.map = Digests(frame.state_transition_probabilities)
          /\ \A h \in DOMAIN frame.map :
                frame.map[h] =
                    ContributionSum(EntriesWith(frame.state_transition_probabilities, h),
                                    frame.state_transition_probabilities,
                                    frame.state_probability_distribution)
          /\ sim'.probability_distributions[Time(sim) + 1] = frame.map]_vars

\* A fold of three rows has finished in which two workers contributed to the
\* same digest.
C36_Witness ==
    /\ ret.op = "next_step"
    /\ ret.panic = "none"
    /\ Cardinality(DOMAIN pre.probability_distributions[Time(pre)]) = 3
    /\ Cardinality(DOMAIN ret.value) < 6
    /\ Time(sim) = Time(pre) + 1

\* The successor lists of the generator of the engine s for the states of
\* the vector distribution, position by position.
OwnRows(s, distribution) ==
    [i \in 1..Len(distribution) |-> Successors(GeneratorOf(s), distribution[i][1])]

\* The vector distribution with the probabilities the engine s holds for its
\* states at its current time.
OwnProbabilities(s, distribution) ==
    [i \in 1..Len(distribution) |->
        <<distribution[i][1],
          s.probability_distributions[Time(s)][Hash(distribution[i][1])]>>]

\* C37: the vector returned by call_many_parallel holds at position i the
\* generator's output for the i-th input, in whatever order the workers
\* finished; the step that follows adds the successors of every list weighted
\* with the probability of the list's own source state and writes their
\* edges from the node of that source state.
C37_BatchPreservesPositions ==
    [][/\ (pc = "map" /\ pc' = "fold") =>
             frame'.state_transition_probabilities
                = OwnRows(sim, frame.state_probability_distribution)
       /\ (pc = "fold" /\ pc' = "idle") =>
             /\ \A h \in Digests(OwnRows(sim, frame.state_probability_distribution)) :
                   sim'.probability_distributions[Time(sim) + 1][h] =
                       ContributionSum(
                           EntriesWith(OwnRows(sim, frame.state_probability_distribution), h),
                           OwnRows(sim, frame.state_probability_distribution),
                           OwnProbabilities(sim, frame.state_probability_distribution))
             /\ \A i \in 1..Len(frame.state_probability_distribution) :
                   \A j \in 1..Len(OwnRows(sim, frame.state_probability_distribution)[i]) :
                       \E k \in 1..Len(OwnRows(sim, frame.state_probability_distribution)[i]) :
                          LET row == OwnRows(sim, frame.state_probability_distribution)[i]
                          IN  /\ row[k][1] = row[j][1]
                              /\ EdgePayload(sim'.state_transition_graph,
                                     Hash(frame.state_probability_distribution[i][1]),
                                     Hash(row[j][1]))
                                    = <<Hash(row[k][2]), row[k][3]>>]_vars

\* A next_step has returned whose workers finished the evaluation of three
\* inputs in another order than that of the inputs.
C37_Witness ==
    /\ ret.op = "next_step"
    /\ ret.panic = "none"
    /\ ret.reordered
    /\ Cardinality(DOMAIN pre.probability_distributions[Time(pre)]) = 3
    /\ Time(sim) = Time(pre) + 1

\* ------------------------------------------------------------- nodes of G

\* C38: after every completed public operation the digests on the nodes of
\* G are the keys of the known-states registry and G has one node per known
\* state, so that next_step finds the node of every state of the current
\* distribution.
C38_NodesAreTheKnownStates ==
    Completed =>
        /\ NodeSet(sim.state_transition_graph) = DOMAIN sim.known_states
        /\ Len(sim.state_transition_graph.nodes) = Cardinality(DOMAIN sim.known_states)
        /\ \A h \in DOMAIN sim.probability_distributions[Time(sim)] :
              FindNode(sim.state_transition_graph, h) # 0

\* A next_step has returned after a cache-only traversal on an engine that
\* was constructed from a distribution; every position of the circle is a
\* node.
C38_Witness ==
    /\ Completed
    /\ ret.op = "next_step"
    /\ ret.panic = "none"
    /\ traversed.ever
    /\ Cardinality(DOMAIN sim.probability_distributions[0]) = 2
    /\ Len(sim.state_transition_graph.nodes) = NumStates
    /\ Cardinality(DOMAIN sim.probability_distributions[Time(sim)]) < NumStates

\* ------------------------------------------------- weights of joint rules

\* C39: the weights of the joint rules that combine_entity_rules returns sum
\* to 1, for every set of entity rules with weights in [0, 1].
C39_JointWeightsSumToOne ==
    Combined => SumOfWeights(ret.value, DOMAIN ret.value) = One

\* ------------------------------------------------- cache-only exploration

\* The operations that explore without stepping self: full_traversal with
\* modify_cache_only, and the analyses that run one on self.
CacheOnlyOps == {"full_traversal", "transition_rate_matrix", "uniform_distribution_is_steady"}

\* A cache-only operation is called on the first of the two engines: it
\* traverses a clone and copies the cache, the registries and the graph
\* back, so that the distributions of the engine are as before.
F64CacheOnly ==
    /\ ret.op = "new_with_distribution"
    /\ \E operation \in CacheOnlyOps :
          ret' = [op |-> operation, panic |-> "none",
                  probabilities |-> ret.probabilities,
                  state_transition_generator |-> ret.state_transition_generator]
    /\ UNCHANGED <<sim, clone, pc, frame, invocations, ops, pre, traversed, cached_function, cache, reachable_states, simulation>>

\* next_step is called on the first engine after the cache-only operation;
\* first is the distribution D[1] it holds afterwards.
F64NextStepExplored ==
    /\ ret.op \in CacheOnlyOps
    /\ \E order \in F64StepOrders(DOMAIN ret.probabilities) :
          ret' = [op |-> "next_step_explored", panic |-> "none",
                  explored |-> ret.op,
                  probabilities |-> ret.probabilities,
                  state_transition_generator |-> ret.state_transition_generator,
                  first |-> F64FoldRows(EmptyMap, ret.state_transition_generator,
                                        ret.probabilities, order)]
    /\ UNCHANGED <<sim, clone, pc, frame, invocations, ops, pre, traversed, cached_function, cache, reachable_states, simulation>>

\* next_step is called on the second engine, which performs the next_step
\* calls only; second is its D[1].
F64NextStepReference ==
    /\ ret.op = "next_step_explored"
    /\ \E order \in F64StepOrders(DOMAIN ret.probabilities) :
          ret' = [op |-> "next_steps_compared", panic |-> "none",
                  explored |-> ret.explored,
                  probabilities |-> ret.probabilities,
                  state_transition_generator |-> ret.state_transition_generator,
                  first |-> ret.first,
                  second |-> F64FoldRows(EmptyMap, ret.state_transition_generator,
                                         ret.probabilities, order)]
    /\ UNCHANGED <<sim, clone, pc, frame, invocations, ops, pre, traversed, cached_function, cache, reachable_states, simulation>>

F64ExploreNext ==
    F64NewWithDistribution \/ F64CacheOnly \/ F64NextStepExplored \/ F64NextStepReference

\* Two engines stepped in f64, the first after a cache-only operation.
F64ExploreSpec == F64Init /\ [][F64ExploreNext]_vars

====
